---- MODULE Spec2Model ----
(***************************************************************************)
(* Model of the real-time speaking-exam gateway of telC_backend:           *)
(*   SpeakingGateway  (src/src/modules/speaking/speaking.gateway.ts, and   *)
(*                     the later draft src/unnamed/part_004, which adds    *)
(*                     closeSessionImmediately and onInputTranscription),  *)
(*   GeminiService    (src/unnamed/part_007),                              *)
(*   SpeakingService  (src/unnamed/part_006, second draft).                *)
(*                                                                         *)
(* Node runs every handler to its next await without interruption, so an   *)
(* action is one such run-to-completion segment: the synchronous prefix of *)
(* a handler, or the continuation after one await.  A continuation that is *)
(* waiting is an entry of the bag tasks.  A store call takes effect when   *)
(* it is issued and its handler continues in a later step.                 *)
(***************************************************************************)
EXTENDS Integers, Sequences, FiniteSets, Bags, TLC

\* ------------------------------------------------------------------ bounds
MaxClients == 2      \* sockets that ever connect
MaxLive    == 2      \* createLiveSession calls
MaxSame    == 2      \* timers of one purpose and owner pending together
MaxHistory == 1      \* conversationHistory entries
MaxTicks   == 1      \* one-second steps of the clock
MaxInputs  == 4      \* events from outside: connections, disconnects, messages, REST
                     \* requests, adapter faults and replies, steps of the clock
MaxRateSteps == 2    \* SpecRate: steps of the clock
RateStepMs == 500    \* SpecRate: the length of a step of the clock

\* ------------------------------------------------------- program constants
GraceMs          == 5000      \* handleDisconnect: setTimeout(..., 5000)
PauseCloseMs     == 60000     \* handlePauseSession: setTimeout(..., 60000)
IdleMs           == 60000     \* handleAudioChunk: setTimeout(..., 60000)
SetupTimeoutMs   == 10000     \* createLiveSession: setTimeout(..., 10000)
TimeLimitTeil1   == 240       \* teil_number === 1 ? 240 : 360
TimeLimitOther   == 360
MaxAudioChunkSize == 102400   \* 100 * 1024
RateWindowMs     == 1000      \* now - t < 1000
MaxChunksPerSecond == 50      \* recentChunks.length >= 50
MaxChunkTimestamps == 100     \* chunkTimestamps.slice(-100)
SecondMs         == 1000

ClientIds == 1..MaxClients
CtxIds    == 1..MaxClients    \* a context object is named by the socket that created it
LiveIds   == 1..MaxLive

\* A timer handle is named by the purpose it was set for and by its owner: six
\* purposes per context (disconnectTimer, pauseGeminiCloseTimer, the three warnings and
\* the auto-end of timerHandles), one per socket (idleTimeouts) and one per
\* createLiveSession call (setupTimeout); up to MaxSame timers of one purpose and owner
\* can be pending together (cnt.lost records a run that needs more).
Places    == <<"grace", "pauseClose", "warning120", "warning60", "warning30", "autoEnd",
               "idle", "setup">>
Owners    == 1..(IF MaxClients > MaxLive THEN MaxClients ELSE MaxLive)
TimerIds  == 1..(Len(Places) * Cardinality(Owners) * MaxSame)

NoCtx   == 0
NoTimer == 0       \* null / undefined timer handle
Spent   == -1      \* the handle of a timer that ran or was cleared: truthy, clearTimeout ignores it
NoLive  == 0
NoTime  == -1      \* expectedEndTime: null

Session   == "s1"             \* the exam session that exists in exam_sessions
Owner     == "owner"          \* its student_id
WarningThresholds == <<120, 60, 30>>

VARIABLES
  now,            \* Date.now() in ms
  ticks,          \* one-second clock steps taken (bounded)
  sockets,        \* Seq of [connected]: the sockets created so far, index = client.id
  sessions,       \* SpeakingGateway.sessions: Map<clientId, SessionContext>, in insertion order
  ctx,            \* the SessionContext objects, by CtxId
  idleTimeouts,   \* SpeakingGateway.idleTimeouts: Map<clientId, Timeout>
  timers,         \* Node's pending timers: TimerId -> callback closure
  tasks,          \* bag of handler continuations waiting on an await
  live,           \* one record per createLiveSession call: its sessionData, socket and promise
  activeSessions, \* GeminiService.activeSessions: the call registered for Session, or NoLive
  db,             \* the exam_sessions row of Session
  transcript,     \* the teil_transcripts row of Session (conversation_history)
  obs,            \* the event the last step sent to a socket (Quiet if none)
  cnt             \* counters of effects: transcript upserts, terminal status writes, ...

vars == <<now, ticks, sockets, sessions, ctx, idleTimeouts, timers, tasks,
          live, activeSessions, db, transcript, obs, cnt>>

\* ----------------------------------------------------------------- records
NullCtx ==
  [ clientId |-> 0, sessionId |-> "", studentId |-> "", teilNumber |-> 0,
    conversationHistory |-> <<>>, status |-> "none",
    startTime |-> 0, elapsedSeconds |-> 0, timeLimit |-> 0, expectedEndTime |-> 0,
    disconnectTimer |-> NoTimer, pauseGeminiCloseTimer |-> NoTimer,
    timerHandles |-> <<>>, lastGeminiError |-> "", chunkTimestamps |-> <<>>,
    flushes |-> 0, liveAtPause |-> 0, sends |-> <<>>, leftAs |-> "", leftFlushes |-> 0,
    leftLog |-> 0, shut |-> FALSE, authAs |-> "" ]

\* The last eight fields of a context are not fields of SessionContext: authAs is the
\* studentId of the token of the socket that clientId names, shut says that
\* it was registered when onModuleDestroy ran, flushes counts
\* the upserts of its transcript, sends lists the times a chunk of it was handed to
\* the adapter, liveAtPause is what getElapsedSeconds returned when handlePauseSession
\* began, leftAs, leftFlushes and leftLog are its status, its flushes and the length
\* of its conversationHistory when its socket left.

NullTimer == [ kind |-> "none", c |-> 0, x |-> 0, due |-> 0, arg |-> 0 ]

\* ws: the provider socket (connecting, open, closing after session.close(), closed);
\* acked: the provider has sent setupComplete; promise: createLiveSession's promise;
\* reason: the message of the Error it was rejected with;
\* context: the conversationHistory the call put into the system instruction
NullLive ==
  [ sid |-> "", c |-> 0, x |-> 0, ws |-> "none", status |-> "none",
    setupComplete |-> FALSE, acked |-> FALSE, promise |-> "none", reason |-> "",
    setupTimeout |-> NoTimer, closes |-> 0, context |-> <<>> ]

\* a waiting continuation: handler kind, the await it waits on, its socket c and
\* context x, the createLiveSession call g it awaits, and the locals it carries
Task(kind, pc, c, x, g, sid, who, row, n) ==
  [ kind |-> kind, pc |-> pc, c |-> c, x |-> x, g |-> g, sid |-> sid, who |-> who,
    row |-> row, n |-> n, m |-> 0 ]

\* the event a step sends to socket c, with its code (or its variant)
\* sent: the step handed an audio chunk to the adapter; hs: the handshake of the
\* socket that connected in the step; text: the message of a caught Error that the
\* payload of the event carries ("" if it carries none); timer: the handle of the
\* timer whose callback ran in the step (NoTimer if none did)
NoHandshake == [ sessionId |-> "", token |-> "" ]
Obs(event, c, code) ==
  [ event |-> event, c |-> c, code |-> code, sent |-> FALSE, hs |-> NoHandshake,
    text |-> "", timer |-> NoTimer ]
Quiet == Obs("", 0, "")

\* --------------------------------------------------------- small utilities
Min(S) == CHOOSE m \in S : \A n \in S : m <= n

RECURSIVE SeqFilter(_, _)
SeqFilter(s, keep) ==
  IF s = <<>> THEN <<>>
  ELSE IF Head(s) \in keep THEN <<Head(s)>> \o SeqFilter(Tail(s), keep)
       ELSE SeqFilter(Tail(s), keep)

\* ------------------------------------------------------------------ timers
\* clearTimeout(h) on a timer table T
ClearTimeout(T, h) ==
  IF h \in TimerIds THEN [ T EXCEPT ![h] = NullTimer ] ELSE T

RECURSIVE ClearAll(_, _)
ClearAll(T, hs) ==
  IF hs = <<>> THEN T ELSE ClearAll(ClearTimeout(T, Head(hs)), Tail(hs))

\* -------------------------------------------------------------- SpeakingGateway
\* getElapsedSeconds
GetElapsedSeconds(cx, t) ==
  IF cx.status # "active" THEN cx.elapsedSeconds
  ELSE (t - cx.startTime) \div SecondMs

TimeLimitOf(teil) == IF teil = 1 THEN TimeLimitTeil1 ELSE TimeLimitOther

\* a timer closure
Timer(kind, c, x, due, arg) == [ kind |-> kind, c |-> c, x |-> x, due |-> due, arg |-> arg ]

\* setTimeout: the handle of a new timer of purpose p and owner o is the first of
\* the purpose's handles that is not pending in T
Slot(p, o, k) ==
  ((o - 1) * Len(Places) + (CHOOSE i \in DOMAIN Places : Places[i] = p) - 1) * MaxSame + k
FreeSlots(T, p, o) == { k \in 1..MaxSame : T[Slot(p, o, k)].kind = "none" }
NewHandle(T, p, o) ==
  Slot(p, o, IF FreeSlots(T, p, o) = {} THEN MaxSame ELSE Min(FreeSlots(T, p, o)))
SetTimeout(T, h, tm) == [ T EXCEPT ![h] = tm ]


\* ------------------------------------------------------ the state as a record
\* A handler is a function from the state it starts in to the state it leaves: St is
\* the current state (no event sent yet), Become(r) makes r the next state.
St ==
  [ now |-> now, ticks |-> ticks, sockets |-> sockets,
    sessions |-> sessions, ctx |-> ctx, idleTimeouts |-> idleTimeouts, timers |-> timers,
    tasks |-> tasks, live |-> live, activeSessions |-> activeSessions, db |-> db,
    transcript |-> transcript, obs |-> Quiet, cnt |-> cnt ]

\* a context or an adapter call that nothing can reach any more is garbage
CtxUsed(r, x) ==
  \/ \E i \in DOMAIN r.sessions : r.sessions[i].x = x
  \/ \E t \in BagToSet(r.tasks) : t.x = x
  \/ \E h \in TimerIds : r.timers[h].kind # "none" /\ r.timers[h].x = x

LiveUsed(r, g) ==
  \/ r.live[g].ws \in {"connecting", "open", "closing"}
  \/ \E t \in BagToSet(r.tasks) : t.g = g
  \/ r.activeSessions = g
  \/ \E h \in TimerIds : r.timers[h].kind = "setup" /\ r.timers[h].arg = g

\* A handle whose timer is no longer pending (it ran, or was cleared while the field
\* kept it) is a spent handle.  Handles are compared only with null and passed to
\* clearTimeout, so all spent handles are alike; only disconnectTimer is ever tested
\* for more than clearing it, so elsewhere a spent handle is as good as none.
SpentIf(T, h) == IF h \in TimerIds /\ T[h].kind = "none" THEN Spent ELSE h
NoneIf(T, h)  == IF h \in TimerIds /\ T[h].kind = "none" THEN NoTimer ELSE h

ScrubCtx(cx, T) ==
  [ cx EXCEPT !.disconnectTimer = SpentIf(T, @),
              !.pauseGeminiCloseTimer = NoneIf(T, @),
              !.timerHandles = SeqFilter(@, { h \in TimerIds : T[h].kind # "none" }) ]

Become(r) ==
  /\ now' = r.now /\ ticks' = r.ticks
  /\ sockets' = r.sockets
  /\ sessions' = r.sessions
  /\ ctx' = [ x \in CtxIds |-> IF CtxUsed(r, x) THEN ScrubCtx(r.ctx[x], r.timers) ELSE NullCtx ]
  /\ idleTimeouts' = [ c \in ClientIds |-> NoneIf(r.timers, r.idleTimeouts[c]) ]
  /\ timers' = r.timers
  /\ tasks' = r.tasks
  /\ live' = [ g \in LiveIds |->
                 IF LiveUsed(r, g)
                 THEN [ r.live[g] EXCEPT
                          !.setupTimeout = NoneIf(r.timers, @),
                          !.reason = IF \E t \in BagToSet(r.tasks) : t.g = g THEN @ ELSE "" ]
                 ELSE NullLive ]
  /\ activeSessions' = r.activeSessions
  /\ db' = r.db
  /\ transcript' = r.transcript
  /\ obs' = r.obs
  /\ cnt' = r.cnt

\* ------------------------------------------------------ small steps on a state
\* an event from outside, counted against MaxInputs
Input(s) == [ s EXCEPT !.cnt.inputs = @ + 1 ]
MoreInputs == cnt.inputs < MaxInputs

Emit(s, event, c, code) ==
  [ s EXCEPT !.obs = [ @ EXCEPT !.event = event, !.c = c, !.code = code ] ]

AddTask(s, t)    == [ s EXCEPT !.tasks = @ (+) SetToBag({t}) ]
RemoveTask(s, t) == [ s EXCEPT !.tasks = @ (-) SetToBag({t}) ]
Waiting          == BagToSet(tasks)

ClearT(s, h)   == [ s EXCEPT !.timers = ClearTimeout(@, h) ]
\* the event loop takes timer h off its list and runs its callback
Run(s, h)      == [ ClearT(s, h) EXCEPT !.obs.timer = h ]
ClearTs(s, hs) == [ s EXCEPT !.timers = ClearAll(@, hs) ]
\* setTimeout; cnt.lost records a place set while its timer was pending
SetT(s, h, tm) ==
  [ s EXCEPT !.timers = SetTimeout(@, h, tm),
             !.cnt.lost = @ \/ s.timers[h].kind # "none" ]

Connected(s, c) == c \in DOMAIN s.sockets /\ s.sockets[c].connected

\* client.disconnect(true). Every call site closes a socket the Map does not hold
\* (a refused handshake, or after sessions.delete), and such a socket is never added
\* to the Map afterwards, so the handleDisconnect that follows returns at its first
\* check and changes nothing.
ServerDisconnect(s, c) == [ s EXCEPT !.sockets[c].connected = FALSE ]

\* ------------------------------------------------- the sessions Map (ordered)
SessCtx(S, c) ==
  IF \E i \in DOMAIN S : S[i].client = c
  THEN S[CHOOSE i \in DOMAIN S : S[i].client = c].x
  ELSE NoCtx

\* Map.set: a new key goes last, an existing key keeps its place
SessSet(S, c, x) ==
  IF \E i \in DOMAIN S : S[i].client = c
  THEN [ i \in DOMAIN S |-> IF S[i].client = c THEN [client |-> c, x |-> x] ELSE S[i] ]
  ELSE Append(S, [client |-> c, x |-> x])

RECURSIVE SessDelete(_, _)
SessDelete(S, c) ==
  IF S = <<>> THEN <<>>
  ELSE IF Head(S).client = c THEN SessDelete(Tail(S), c)
       ELSE <<Head(S)>> \o SessDelete(Tail(S), c)

\* findSessionBySessionId: the first entry, in insertion order, whose context has that
\* sessionId (0 if none)
FindSessionBySessionId(s, sid) ==
  LET hits == { i \in DOMAIN s.sessions : s.ctx[s.sessions[i].x].sessionId = sid }
  IN  IF hits = {} THEN 0 ELSE Min(hits)

\* ------------------------------------------------------------ GeminiService
\* the messages of the Errors the adapter rejects with or hands to onError, and of
\* an Error of the SDK
SetupTimeoutText == "GEMINI_SETUP_TIMEOUT"
ClosedDuringSetupText == "GEMINI_CLOSED_DURING_SETUP: code reason"
LiveErrorText == "GEMINI_LIVE_ERROR"
SdkText == "sdk error text"
ProviderTexts == {"", "provider error text"}

\* reject(new Error(text)) of a createLiveSession promise: nothing if it has settled
Reject(L, text) ==
  IF L.promise = "pending" THEN [ L EXCEPT !.promise = "rejected", !.reason = text ] ELSE L

\* activeSessions holds the entry of the one session id for which contexts exist
IsSessionActive(s, sid) ==
  /\ sid = Session
  /\ s.activeSessions # NoLive
  /\ s.live[s.activeSessions].setupComplete
  /\ s.live[s.activeSessions].status = "connected"

\* a closeLiveSession that keeps the entry when session.close() throws
CloseLiveKeepsOnThrow(s, sid, throws) ==
  LET g == s.activeSessions
  IN IF sid # Session \/ g = NoLive THEN s
     ELSE IF throws THEN [ s EXCEPT !.live[g].closes = @ + 1 ]
     ELSE [ s EXCEPT !.live[g].ws = IF @ = "open" THEN "closing" ELSE @,
                     !.live[g].closes = @ + 1,
                     !.activeSessions = NoLive ]

\* closeLiveSession: nothing if the session has no entry; else session.close() on the
\* registered handle (throws: it throws, is caught, and the socket stays as it is),
\* then activeSessions.delete
CloseLive(s, sid, throws) ==
  LET g == s.activeSessions
  IN IF sid # Session \/ g = NoLive THEN s
     ELSE [ s EXCEPT !.live[g].ws = IF @ = "open" /\ ~throws THEN "closing" ELSE @,
                     !.live[g].closes = @ + 1,
                     !.activeSessions = NoLive ]

\* closeLiveSession when session.close() returns
CloseLiveSession(s, sid) == CloseLive(s, sid, FALSE)

\* sendAudioChunk: an error if the session has no entry or its setup is not complete;
\* otherwise session.sendRealtimeInput, which the SDK may refuse by throwing (throws).
\* wire: the chunk went out on an open provider socket.  A socket that is no longer
\* open takes nothing; whether the SDK throws then is the SDK's choice.
SendAudioChunk(s, sid, throws) ==
  LET d == s.activeSessions
  IN IF sid # Session \/ d = NoLive
     THEN [ error |-> "GEMINI_SESSION_NOT_FOUND", wire |-> FALSE ]
     ELSE IF ~s.live[d].setupComplete
          THEN [ error |-> "GEMINI_SETUP_NOT_COMPLETE", wire |-> FALSE ]
     ELSE IF throws THEN [ error |-> SdkText, wire |-> FALSE ]
     ELSE [ error |-> "", wire |-> s.live[d].ws = "open" ]

\* saveConversationHistory -> saveTranscript: the upsert of the transcript row
SaveConversationHistory(s, x) ==
  [ s EXCEPT !.transcript = s.ctx[x].conversationHistory,
             !.ctx[x].flushes = @ + 1 ]

\* ---------------------------------------------------------------------- Init
Teils == {1}

Init ==
  /\ now = 0 /\ ticks = 0
  /\ sockets = <<>>
  /\ sessions = <<>>
  /\ ctx = [ x \in CtxIds |-> NullCtx ]
  /\ idleTimeouts = [ c \in ClientIds |-> NoTimer ]
  /\ timers = [ t \in TimerIds |-> NullTimer ]
  /\ tasks = EmptyBag
  /\ live = [ g \in LiveIds |-> NullLive ]
  /\ activeSessions = NoLive
  /\ \E ut \in BOOLEAN, teil \in Teils :
       db = [ status |-> "active", student_id |-> Owner, use_timer |-> ut,
              teil_number |-> teil, server_start_time |-> 0, elapsed_time |-> 0,
              pause_timestamp |-> NoTime ]
  /\ transcript = <<>>
  /\ obs = Quiet
  /\ cnt = [ inputs |-> 0, ends |-> 0, lost |-> FALSE, down |-> FALSE ]

\* a createLiveSession promise has settled and the handler awaiting it has not yet
\* continued: the continuation is a microtask and runs before any other event
Settled(t) == t.pc = "gemini" /\ live[t.g].promise # "pending"
Urgent     == \E t \in Waiting : Settled(t)

\* send an event to socket c; a socket that is no longer connected receives nothing
EmitTo(s, c, event, code) == IF Connected(s, c) THEN Emit(s, event, c, code) ELSE s

\* an event whose payload carries the message of a caught Error (details:
\* geminiError.message, message: error.message)
EmitText(s, c, event, code, text) ==
  IF Connected(s, c) THEN [ Emit(s, event, c, code) EXCEPT !.obs.text = text ] ELSE s

\* ------------------------------------------- setupTimerWarnings, setupAutoEnd
Warnings(limit) == SelectSeq(WarningThresholds, LAMBDA th : (limit - th) * SecondMs > 0)

WarningPlace(th) ==
  IF th = 120 THEN "warning120" ELSE IF th = 60 THEN "warning60" ELSE "warning30"

\* the handles pushed on context.timerHandles
ExamHandles(T, x, limit) ==
  LET W == Warnings(limit)
  IN [ i \in 1..(Len(W) + 1) |->
         IF i <= Len(W) THEN NewHandle(T, WarningPlace(W[i]), x)
         ELSE NewHandle(T, "autoEnd", x) ]

\* setupTimerWarnings(client, context); setupAutoEnd(client, context)
SetupExamTimers(s, c, x) ==
  LET limit == s.ctx[x].timeLimit
      W == Warnings(limit)
      H == ExamHandles(s.timers, x, limit)
  IN IF limit = 0 \/ s.ctx[x].expectedEndTime = NoTime THEN s
     ELSE [ s EXCEPT
              !.timers = [ h \in TimerIds |->
                  IF \E i \in DOMAIN W : H[i] = h
                  THEN LET i == CHOOSE j \in DOMAIN W : H[j] = h
                       IN Timer("warning", c, x, s.now + (limit - W[i]) * SecondMs, W[i])
                  ELSE IF h = H[Len(W) + 1]
                       THEN Timer("autoEnd", c, x, s.now + limit * SecondMs, 0)
                       ELSE s.timers[h] ],
              !.ctx[x].timerHandles = @ \o H,
              !.cnt.lost = @ \/ \E i \in DOMAIN H : s.timers[H[i]].kind # "none" ]

\* --------------------------------------------------------- handleConnection
\* handshakes: the session or an unknown one or none; a student's token, an invalid
\* one or none. The checks run in this order, so one handshake stands for each outcome.
Handshakes ==
  { [sessionId |-> Session, token |-> Owner],
    [sessionId |-> Session, token |-> "other"],
    [sessionId |-> Session, token |-> "bad"],
    [sessionId |-> Session, token |-> ""],
    [sessionId |-> "sX",    token |-> Owner],
    [sessionId |-> "",      token |-> Owner] }

\* the reconnection branch: the context of sessions entry i moves to the new socket c,
\* whose token is tok's
Reconnect(s, c, i, tok) ==
  LET old == s.sessions[i].client
      x   == s.sessions[i].x
      s1  == ClearT(s, s.ctx[x].disconnectTimer)
      s2  == [ ClearT(s1, s1.idleTimeouts[old]) EXCEPT !.idleTimeouts[old] = NoTimer ]
      s3  == [ s2 EXCEPT !.ctx[x].disconnectTimer = NoTimer,
                         !.ctx[x].clientId = c,
                         !.ctx[x].authAs = tok,
                         !.ctx[x].status = "active",
                         !.ctx[x].leftAs = "",
                         !.ctx[x].leftFlushes = 0,
                         !.ctx[x].leftLog = 0,
                         !.sessions = SessSet(SessDelete(@, old), c, x) ]
  IN Emit(s3, "session_ready", c, "reconnected")

\* connection_error with a code, then client.disconnect(true)
Refuse(s, c, code) == ServerDisconnect(EmitTo(s, c, "connection_error", code), c)

\* connection_error with a code and details, then client.disconnect(true)
RefuseText(s, c, code, text) ==
  ServerDisconnect(EmitText(s, c, "connection_error", code, text), c)

\* the owner check made only after the grace timer was cleared
ExistingEntryClearsFirst(s, c, i, tok) ==
  LET x == s.sessions[i].x
  IN IF s.ctx[x].disconnectTimer # NoTimer
     THEN IF s.ctx[x].studentId # tok
          THEN Refuse([ ClearT(s, s.ctx[x].disconnectTimer) EXCEPT
                          !.ctx[x].disconnectTimer = NoTimer ], c, "4010")
          ELSE Reconnect(s, c, i, tok)
     ELSE Refuse(s, c, "4006")

\* a reconnection that does not compare the context's student with the token's
ExistingEntryAnyStudent(s, c, i, tok) ==
  LET x == s.sessions[i].x
  IN IF s.ctx[x].disconnectTimer # NoTimer THEN Reconnect(s, c, i, tok)
     ELSE Refuse(s, c, "4006")

\* the branch of handleConnection for a sessionId that has a context (entry i of the
\* Map): a reconnection if its disconnectTimer is set, else a duplicate
ExistingEntry(s, c, i, tok) ==
  LET x == s.sessions[i].x
  IN IF s.ctx[x].disconnectTimer # NoTimer
     THEN IF s.ctx[x].studentId # tok THEN Refuse(s, c, "4010")
          ELSE Reconnect(s, c, i, tok)
     ELSE Refuse(s, c, "4006")

\* handleConnection(client) for the new socket c, up to the first await: the checks
\* of the handshake, the branch of an existing entry, or the select of the
\* exam_sessions row, which returns the row as it is now
Connection(s, c, sid, tok) ==
  LET i == FindSessionBySessionId(s, sid)
  IN IF sid = "" THEN Refuse(s, c, "4001")
     ELSE IF tok = "" THEN Refuse(s, c, "4008")
     ELSE IF tok = "bad" THEN Refuse(s, c, "4009")
     ELSE IF i # 0 THEN ExistingEntry(s, c, i, tok)
          ELSE AddTask(s, Task("conn", "load", c, NoCtx, NoLive, sid, tok,
                               IF sid = Session THEN s.db.status ELSE "absent",
                               s.db.elapsed_time))

\* the state when socket c has connected with its handshake
Connecting(s, sid, tok) ==
  [ s EXCEPT !.sockets = Append(@, [connected |-> TRUE]),
             !.obs.hs = [ sessionId |-> sid, token |-> tok ] ]

\* a new socket connects
HandleConnection(sid, tok) ==
  /\ ~Urgent
  /\ Len(sockets) < MaxClients
  /\ MoreInputs
  /\ Become(Connection(Connecting(Input(St), sid, tok), Len(sockets) + 1, sid, tok))

\* the SessionContext built at step 5 from the row read at the first await
NewContext(t) ==
  [ NullCtx EXCEPT
      !.clientId = t.c, !.authAs = t.who, !.sessionId = t.sid, !.studentId = db.student_id,
      !.teilNumber = db.teil_number, !.status = "active",
      !.startTime = db.server_start_time, !.elapsedSeconds = t.n,
      !.timeLimit = IF db.use_timer THEN TimeLimitOf(db.teil_number) ELSE 0,
      !.expectedEndTime = IF db.use_timer
                          THEN db.server_start_time + TimeLimitOf(db.teil_number) * SecondMs
                          ELSE NoTime ]

\* createLiveSession up to the returned promise: the setup timeout is armed and the
\* connect is under way; g names the call, (c, x) the socket and context its callbacks
\* hold, log the conversationHistory argument
FreeLive == { g \in LiveIds : live[g].ws = "none" }

CreateLiveSession(s, g, sid, c, x, log) ==
  LET h == NewHandle(s.timers, "setup", g)
  IN SetT([ s EXCEPT !.live[g] =
              [ NullLive EXCEPT !.sid = sid, !.c = c, !.x = x, !.ws = "connecting",
                                !.status = "connecting", !.promise = "pending",
                                !.setupTimeout = h, !.context = log ] ],
          h, Timer("setup", 0, 0, s.now + SetupTimeoutMs, g))

\* the checks of steps 1 to 3 in their order, on the row read when the handler began
\* (row), its student_id (owner), the token's student (who), and the students and
\* activation_codes rows: the code of the first that fails ("" if none).  The read of
\* activation_codes may throw (code = "throws"), which the catch of the handler
\* reports as 5000.
RecordError(row, owner, who, student, code) ==
  IF row = "absent" THEN "4001"
  ELSE IF row # "active" THEN "4002"
  ELSE IF owner # who THEN "4010"
  ELSE IF ~student THEN "4003"
  ELSE IF code = "throws" THEN "5000"
  ELSE IF code = "inactive" THEN "4004"
  ELSE IF code = "expired" THEN "4005"
  ELSE ""

\* the code sent when createLiveSession failed or left no active session
GeminiInitFailed == "4007"

ActivationCodes == {"active", "inactive", "expired", "throws"}

\* Steps 1 to 5 of handleConnection.  The exam_sessions row is the one read when the
\* handler began (t.row, t.n); the students and activation_codes rows are inputs.  The
\* three reads are awaited one after the other and the handler touches nothing but
\* its locals between them, so their continuations are one step: a refusal with the
\* code of the first check that fails, or build the context and call createLiveSession
ConnLoaded(t, student, code) ==
  /\ ~Urgent
  /\ t.kind = "conn" /\ t.pc = "load"
  /\ LET s0 == RemoveTask(St, t)
         g  == Min(FreeLive)
         e  == RecordError(t.row, db.student_id, t.who, student, code)
     IN IF e # "" THEN Become(Refuse(s0, t.c, e))
        ELSE /\ FreeLive # {}
             /\ Become(AddTask(
                  CreateLiveSession([ s0 EXCEPT !.ctx[t.c] = NewContext(t) ], g, t.sid, t.c, t.c,
                                    <<>>),
                  Task("conn", "gemini", t.c, t.c, g, t.sid, "", "", 0)))

\* after createLiveSession settled: 4007, or register the context, emit session_ready
\* and set the exam timers
ConnAfterGemini(t) ==
  /\ t.kind = "conn" /\ Settled(t)
  /\ LET s0 == RemoveTask(St, t)
     IN Become(
          IF live[t.g].promise = "rejected"
          THEN RefuseText(s0, t.c, GeminiInitFailed, live[t.g].reason)
          ELSE IF ~IsSessionActive(St, t.sid) THEN Refuse(s0, t.c, GeminiInitFailed)
          ELSE SetupExamTimers(
                 EmitTo([ s0 EXCEPT !.sessions = SessSet(@, t.c, t.x) ],
                        t.c, "session_ready", "new"),
                 t.c, t.x))

\* ------------------------------------------- GeminiService: provider events
Settle(p, outcome) == IF p = "pending" THEN outcome ELSE p

\* connect().then: the session is stored and the call's sessionData registered
GeminiConnected(g) ==
  /\ ~Urgent
  /\ live[g].ws = "connecting"
  /\ Become([ St EXCEPT !.live[g].ws = "open", !.activeSessions = g ])

\* connect().catch: clearTimeout(setupTimeout); reject(error)
GeminiConnectFailed(g) ==
  /\ ~Urgent
  /\ live[g].ws = "connecting"
  /\ MoreInputs
  /\ Become([ ClearT(Input(St), live[g].setupTimeout) EXCEPT
                !.live[g] = Reject([ @ EXCEPT !.ws = "closed" ], SdkText) ])

\* handleLiveMessage, message.setupComplete: the sessionData registered for the session
\* id is marked, the call's setup timeout cleared and its promise resolved
GeminiSetupComplete(g) ==
  /\ ~Urgent
  /\ live[g].ws = "open" /\ ~live[g].acked
  /\ LET d  == activeSessions
         s1 == [ ClearT(St, live[g].setupTimeout) EXCEPT
                   !.live[g].acked = TRUE, !.live[g].promise = Settle(@, "resolved") ]
     IN Become(IF d = NoLive THEN s1
               ELSE [ s1 EXCEPT !.live[d].setupComplete = TRUE,
                                !.live[d].status = "connected" ])

\* onclose, after the provider closed the socket or after session.close(): the
\* registered sessionData is marked disconnected; reject if this call's setup was
\* not complete
GeminiClosed(g) ==
  /\ ~Urgent
  /\ live[g].ws \in {"open", "closing"}
  /\ live[g].ws = "open" => MoreInputs
  /\ LET d  == activeSessions
         s0 == IF live[g].ws = "open" THEN Input(St) ELSE St
         s1 == [ ClearT(s0, live[g].setupTimeout) EXCEPT
                   !.live[g] = IF live[g].setupComplete THEN [ @ EXCEPT !.ws = "closed" ]
                               ELSE Reject([ @ EXCEPT !.ws = "closed" ],
                                           ClosedDuringSetupText) ]
     IN Become(IF d = NoLive THEN s1 ELSE [ s1 EXCEPT !.live[d].status = "disconnected" ])

\* onerror of the provider socket with message msg: clearTimeout(setupTimeout);
\* callbacks.onError(new Error(msg || 'GEMINI_LIVE_ERROR')) (gemini_error to the call's
\* socket if it is connected, the Error's message in its payload); reject with the
\* same message if this call's setup was not complete
GeminiError(g, msg) ==
  /\ ~Urgent
  /\ live[g].ws = "open"
  /\ MoreInputs
  /\ LET text == IF msg = "" THEN LiveErrorText ELSE msg
     IN Become(EmitText([ ClearT(Input(St), live[g].setupTimeout) EXCEPT
                           !.live[g] = IF live[g].setupComplete THEN @
                                       ELSE Reject(@, text) ],
                        live[g].c, "gemini_error", "GEMINI_LIVE_ERROR", text))

PendingIds == { h \in TimerIds : timers[h].kind # "none" }

\* the event loop runs the timers that are due, the earliest first
Due(h, kind) ==
  /\ timers[h].kind = kind
  /\ timers[h].due <= now
  /\ \A k \in PendingIds : timers[k].due >= timers[h].due

\* the setup timeout of createLiveSession: activeSessions.delete(sessionId); reject
FireSetupTimeout(h) ==
  /\ ~Urgent
  /\ Due(h, "setup")
  /\ LET g == timers[h].arg
     IN Become([ Run(St, h) EXCEPT !.live[g] = Reject(@, SetupTimeoutText),
                                      !.activeSessions = NoLive ])

\* ------------------------------------------------------------------ the clock
\* a timer runs when it is due: time does not pass a pending timer
Tick ==
  /\ ~Urgent
  /\ ticks < MaxTicks
  /\ MoreInputs
  /\ \A h \in PendingIds : timers[h].due >= now + SecondMs
  /\ Become([ Input(St) EXCEPT !.now = @ + SecondMs, !.ticks = @ + 1 ])

\* the clock steps to the time a pending timer is due
Jump(h) ==
  /\ ~Urgent
  /\ MoreInputs
  /\ h \in PendingIds
  /\ \A k \in PendingIds : timers[k].due > now
  /\ Become([ Input(St) EXCEPT !.now = timers[h].due ])


\* --------------------------------------------------------- handleDisconnect
\* the end of handleDisconnect: the elapsed snapshot, grace_period, the 5 s timer
StartGrace(s, c, x) ==
  LET h == NewHandle(s.timers, "grace", x)
  IN SetT([ s EXCEPT !.ctx[x].elapsedSeconds = GetElapsedSeconds(s.ctx[x], s.now),
                     !.ctx[x].status = "grace_period",
                     !.ctx[x].disconnectTimer = h ],
          h, Timer("grace", c, x, s.now + GraceMs, 0))

\* handleDisconnect(client) up to its await, or to its end if there is nothing to save
HandleDisconnect(s, c) ==
  LET x  == SessCtx(s.sessions, c)
      s1 == ClearT(ClearT(ClearTs(ClearT(s, s.ctx[x].disconnectTimer),
                   s.ctx[x].timerHandles), s.ctx[x].pauseGeminiCloseTimer), s.idleTimeouts[c])
      s2 == [ s1 EXCEPT !.ctx[x].timerHandles = <<>>,
                        !.ctx[x].pauseGeminiCloseTimer = NoTimer,
                        !.ctx[x].leftAs = s.ctx[x].status,
                        !.ctx[x].leftFlushes = s.ctx[x].flushes,
                        !.ctx[x].leftLog = Len(s.ctx[x].conversationHistory),
                        !.idleTimeouts[c] = NoTimer ]
  IN IF x = NoCtx THEN s
     ELSE IF s.ctx[x].conversationHistory # <<>>
          THEN AddTask(SaveConversationHistory(s2, x),
                       Task("disc", "save", c, x, NoLive, "", "", "", 0))
          ELSE StartGrace(s2, c, x)

\* the client goes away
ClientDisconnect(c) ==
  /\ ~Urgent
  /\ Connected(St, c)
  /\ MoreInputs
  /\ Become(HandleDisconnect([ Input(St) EXCEPT !.sockets[c].connected = FALSE ], c))

\* handleDisconnect after the transcript was saved
DiscAfterSave(t) ==
  /\ ~Urgent
  /\ t.kind = "disc" /\ t.pc = "save"
  /\ Become(StartGrace(RemoveTask(St, t), t.c, t.x))

\* the grace timer runs: closeLiveSession, then the status of the row is read
FireGrace(h) ==
  /\ ~Urgent
  /\ Due(h, "grace")
  /\ LET tm == timers[h]
     IN Become(AddTask(CloseLiveSession(Run(St, h), ctx[tm.x].sessionId),
                       Task("grace", "select", tm.c, tm.x, NoLive, "", "", db.status, 0)))

\* the status arrived: interrupted is written if it was active or paused
GraceAfterSelect(t) ==
  /\ ~Urgent
  /\ t.kind = "grace" /\ t.pc = "select"
  /\ LET s0 == RemoveTask(St, t)
     IN Become(
          IF t.row \in {"active", "paused"}
          THEN AddTask([ s0 EXCEPT !.db.status = "interrupted",
                                   !.db.elapsed_time = ctx[t.x].elapsedSeconds ],
                       [ t EXCEPT !.pc = "update", !.row = "" ])
          ELSE [ s0 EXCEPT !.sessions = SessDelete(@, t.c) ])

\* the update returned: this.sessions.delete(client.id)
GraceAfterUpdate(t) ==
  /\ ~Urgent
  /\ t.kind = "grace" /\ t.pc = "update"
  /\ Become([ RemoveTask(St, t) EXCEPT !.sessions = SessDelete(@, t.c) ])

\* ---------------------------------------------------- createGeminiCallbacks
\* onAudioResponse of the callbacks of call g, which hold the socket and the context
\* the call was made for: if that socket is connected it gets audio_response and the
\* context gets an entry of the examiner; if not, nothing
OnAudioResponse(s, g) ==
  LET x == s.live[g].x
      c == s.live[g].c
  IN IF Connected(s, c)
     THEN Emit([ s EXCEPT !.ctx[x].conversationHistory = Append(@, "elena") ],
               "audio_response", c, "")
     ELSE s

\* the provider delivers a reply of the examiner on call g
GeminiAudioResponse(g) ==
  /\ ~Urgent
  /\ live[g].ws = "open" /\ live[g].acked
  /\ Len(ctx[live[g].x].conversationHistory) < MaxHistory
  /\ MoreInputs
  /\ Become(Input(OnAudioResponse(St, g)))

\* onInputTranscription of call g: its context gets an entry of the student
GeminiInputTranscription(g) ==
  /\ ~Urgent
  /\ live[g].ws = "open" /\ live[g].acked
  /\ Len(ctx[live[g].x].conversationHistory) < MaxHistory
  /\ MoreInputs
  /\ Become([ Input(St) EXCEPT !.ctx[live[g].x].conversationHistory = Append(@, "student") ])

\* ------------------------------------------------------------ handleAudioChunk
\* an audio_chunk payload: the type of data, whether it is canonical Base64, its length
GoodPayload == [type |-> "string", canonical |-> TRUE, len |-> 4]
Payloads ==
  { GoodPayload,
    [type |-> "string", canonical |-> TRUE,  len |-> MaxAudioChunkSize],
    [type |-> "string", canonical |-> TRUE,  len |-> MaxAudioChunkSize + 4],
    [type |-> "string", canonical |-> FALSE, len |-> 5],
    [type |-> "string", canonical |-> TRUE,  len |-> 0],
    [type |-> "object", canonical |-> FALSE, len |-> 0] }

\* isValidBase64: decoding and encoding again gives the same string
IsValidBase64(p) == p.canonical /\ p.len % 4 = 0


\* the update of the catch block: status interrupted, elapsed_time getElapsedSeconds
MarkInterrupted(s, x) ==
  [ s EXCEPT !.db.status = "interrupted",
             !.db.elapsed_time = GetElapsedSeconds(s.ctx[x], s.now) ]

\* a catch block that reports the failure and leaves the context active
AudioForwardFailedStaysActive(s, c, x, msg, dberr) ==
  LET s1 == EmitText([ s EXCEPT !.ctx[x].lastGeminiError = msg ],
                     c, "gemini_error", "AUDIO_FORWARD_FAILED", msg)
  IN IF s.ctx[x].conversationHistory # <<>>
     THEN AddTask(IF dberr THEN s1 ELSE SaveConversationHistory(s1, x),
                  Task("audio", "save", c, x, NoLive, "", "", "", 0))
     ELSE IF dberr THEN s1 ELSE MarkInterrupted(s1, x)

\* the catch block of the forward, up to its first await; msg: geminiError.message;
\* dberr: the store refuses the call the block makes here (the upsert of the
\* transcript, whose error saveTranscript logs, or the update of the row, whose
\* result the block ignores)
AudioForwardFailed(s, c, x, msg, dberr) ==
  LET s1 == EmitText([ s EXCEPT !.ctx[x].lastGeminiError = msg,
                                !.ctx[x].status = "interrupted" ],
                     c, "gemini_error", "AUDIO_FORWARD_FAILED", msg)
  IN IF s.ctx[x].conversationHistory # <<>>
     THEN AddTask(IF dberr THEN s1 ELSE SaveConversationHistory(s1, x),
                  Task("audio", "save", c, x, NoLive, "", "", "", 0))
     ELSE IF dberr THEN s1 ELSE MarkInterrupted(s1, x)

\* a status check that lets a paused session pass
NotActiveUnlessPaused(cx) == cx.status \notin {"active", "paused"}

\* the check of the session's status: context.status !== 'active'
NotActive(cx) == cx.status # "active"

\* the checks of the payload with the size limit left out
PayloadErrorNoSizeLimit(p) ==
  IF p.type # "string" \/ p.len = 0 THEN "INVALID_AUDIO_FORMAT"
  ELSE IF ~IsValidBase64(p) THEN "INVALID_BASE64"
  ELSE ""

\* the checks of the payload, in their order: format, Base64, size ("" if it passes)
PayloadError(p) ==
  IF p.type # "string" \/ p.len = 0 THEN "INVALID_AUDIO_FORMAT"
  ELSE IF ~IsValidBase64(p) THEN "INVALID_BASE64"
  ELSE IF p.len > MaxAudioChunkSize THEN "AUDIO_CHUNK_TOO_LARGE"
  ELSE ""

\* chunkTimestamps.filter((t) => now - t < 1000)
RecentChunks(cx, t) == SelectSeq(cx.chunkTimestamps, LAMBDA u : t - u < RateWindowMs)

\* a rate check that lets one chunk more pass
RateLimitedOffByOne(cx, t) == Len(RecentChunks(cx, t)) > MaxChunksPerSecond

\* recentChunks.length >= 50
RateLimited(cx, t) == Len(RecentChunks(cx, t)) >= MaxChunksPerSecond

\* handleAudioChunk(client, payload); throws: sendRealtimeInput of the SDK throws;
\* dberr: the store refuses the call of the catch block
AudioChunkDb(s, c, p, throws, dberr) ==
  LET x      == SessCtx(s.sessions, c)
      cx     == s.ctx[x]
      s1     == [ ClearT(s, s.idleTimeouts[c]) EXCEPT !.idleTimeouts[c] = NoTimer ]
      pushed == Append(cx.chunkTimestamps, s.now)
      kept   == IF Len(pushed) > MaxChunkTimestamps
                THEN SubSeq(pushed, Len(pushed) - MaxChunkTimestamps + 1, Len(pushed))
                ELSE pushed
      s2     == [ s1 EXCEPT !.ctx[x].chunkTimestamps = kept ]
      s3     == [ s2 EXCEPT !.ctx[x].sends = Append(@, s.now), !.obs.sent = TRUE ]
      h      == NewHandle(s3.timers, "idle", c)
  IN IF x = NoCtx THEN EmitTo(s, c, "error", "SESSION_NOT_FOUND")
     ELSE IF NotActive(cx) THEN EmitTo(s, c, "error", "SESSION_NOT_ACTIVE")
     ELSE IF PayloadError(p) # "" THEN EmitTo(s1, c, "error", PayloadError(p))
     ELSE IF RateLimited(cx, s.now) THEN EmitTo(s1, c, "error", "RATE_LIMIT_EXCEEDED")
     ELSE IF ~IsSessionActive(s2, cx.sessionId)
          THEN EmitTo(s2, c, "error", "GEMINI_SESSION_NOT_FOUND")
     ELSE IF SendAudioChunk(s2, cx.sessionId, throws).error # ""
          THEN AudioForwardFailed(s3, c, x, SendAudioChunk(s2, cx.sessionId, throws).error,
                                  dberr)
     ELSE [ SetT(s3, h, Timer("idle", c, 0, s.now + IdleMs, 0)) EXCEPT !.idleTimeouts[c] = h ]

\* handleAudioChunk while the store works
AudioChunk(s, c, p, throws) == AudioChunkDb(s, c, p, throws, FALSE)

HandleAudioChunk(c, p, throws, dberr) ==
  /\ ~Urgent
  /\ Connected(St, c)
  /\ MoreInputs
  /\ Become(Input(AudioChunkDb(St, c, p, throws, dberr)))

\* the catch block after saveConversationHistory returned: the update of the row,
\* which the store takes or refuses (dberr); either way the handler returns
AudioSaved(s, t, dberr) ==
  IF dberr THEN RemoveTask(s, t) ELSE MarkInterrupted(RemoveTask(s, t), t.x)

AudioAfterSave(t, dberr) ==
  /\ ~Urgent
  /\ t.kind = "audio" /\ t.pc = "save"
  /\ Become(AudioSaved(St, t, dberr))

\* the idle timeout runs: it only logs
FireIdle(h) ==
  /\ ~Urgent
  /\ Due(h, "idle")
  /\ Become(Run(St, h))

\* ---------------------------------------------------------- handlePauseSession
\* a pause that leaves the exam timers running
PauseSessionKeepsTimers(s, c, dberr) ==
  LET x  == SessCtx(s.sessions, c)
      s1 == [ ClearT(s, s.idleTimeouts[c]) EXCEPT
                !.idleTimeouts[c] = NoTimer,
                !.ctx[x].liveAtPause = GetElapsedSeconds(s.ctx[x], s.now),
                !.ctx[x].status = "paused" ]
      s2 == [ s1 EXCEPT !.ctx[x].elapsedSeconds = GetElapsedSeconds(s1.ctx[x], s.now) ]
      s3 == IF dberr THEN s2
            ELSE [ s2 EXCEPT !.db.status = "paused",
                             !.db.pause_timestamp = s.now,
                             !.db.elapsed_time = s2.ctx[x].elapsedSeconds ]
  IN IF x = NoCtx THEN EmitTo(s, c, "error", "SESSION_NOT_FOUND")
     ELSE IF s.ctx[x].status # "active" THEN EmitTo(s, c, "error", "INVALID_SESSION_STATE")
     ELSE AddTask(s3, Task("pause", "update", c, x, NoLive, "", "",
                           IF dberr THEN "error" ELSE "ok", 0))

\* handlePauseSession(client) up to its await; dberr: the update returns an error
PauseSession(s, c, dberr) ==
  LET x  == SessCtx(s.sessions, c)
      s1 == [ ClearTs(ClearT(s, s.idleTimeouts[c]), s.ctx[x].timerHandles) EXCEPT
                !.idleTimeouts[c] = NoTimer,
                !.ctx[x].timerHandles = <<>>,
                !.ctx[x].liveAtPause = GetElapsedSeconds(s.ctx[x], s.now),
                !.ctx[x].status = "paused" ]
      s2 == [ s1 EXCEPT !.ctx[x].elapsedSeconds = GetElapsedSeconds(s1.ctx[x], s.now) ]
      s3 == IF dberr THEN s2
            ELSE [ s2 EXCEPT !.db.status = "paused",
                             !.db.pause_timestamp = s.now,
                             !.db.elapsed_time = s2.ctx[x].elapsedSeconds ]
  IN IF x = NoCtx THEN EmitTo(s, c, "error", "SESSION_NOT_FOUND")
     ELSE IF s.ctx[x].status # "active" THEN EmitTo(s, c, "error", "INVALID_SESSION_STATE")
     ELSE AddTask(s3, Task("pause", "update", c, x, NoLive, "", "",
                           IF dberr THEN "error" ELSE "ok", 0))

HandlePauseSession(c, dberr) ==
  /\ ~Urgent
  /\ Connected(St, c)
  /\ MoreInputs
  /\ Become(Input(PauseSession(St, c, dberr)))

\* after the update: DATABASE_ERROR, or the 60 s timer and session_paused
PauseAfterUpdate(t) ==
  /\ ~Urgent
  /\ t.kind = "pause" /\ t.pc = "update"
  /\ LET s0 == RemoveTask(St, t)
         h  == NewHandle(timers, "pauseClose", t.x)
     IN Become(
          IF t.row = "error" THEN EmitTo(s0, t.c, "error", "DATABASE_ERROR")
          ELSE EmitTo([ SetT(s0, h, Timer("pauseClose", t.c, t.x, now + PauseCloseMs, 0))
                          EXCEPT !.ctx[t.x].pauseGeminiCloseTimer = h ],
                      t.c, "session_paused", ""))

\* the 60 s timer runs: closeLiveSession, grace_period, pause_timeout
FirePauseClose(h) ==
  /\ ~Urgent
  /\ Due(h, "pauseClose")
  /\ LET tm == timers[h]
     IN Become(EmitTo([ CloseLiveSession(Run(St, h), ctx[tm.x].sessionId) EXCEPT
                          !.ctx[tm.x].status = "grace_period" ],
                      tm.c, "pause_timeout", ""))

\* --------------------------------------------------------- handleResumeSession
\* the handler from "Update context" to its await of the update
ResumeFinish(s, c, x) ==
  LET s1 == [ ClearTs(s, s.ctx[x].timerHandles) EXCEPT
                !.ctx[x].status = "active",
                !.ctx[x].startTime = s.now - s.ctx[x].elapsedSeconds * SecondMs,
                !.ctx[x].timerHandles = <<>> ]
      s2 == IF s1.ctx[x].timeLimit # 0 /\ s1.ctx[x].expectedEndTime # NoTime
            THEN SetupExamTimers(
                   [ s1 EXCEPT !.ctx[x].expectedEndTime =
                                s1.ctx[x].startTime + s1.ctx[x].timeLimit * SecondMs ],
                   c, x)
            ELSE s1
  IN AddTask([ s2 EXCEPT !.db.status = "active", !.db.pause_timestamp = NoTime ],
             Task("resume", "update", c, x, NoLive, "", "", "", 0))

\* handleResumeSession(client) up to its first await; g is the call it opens if
\* the adapter is not active
ResumeSession(s, c, g) ==
  LET x  == SessCtx(s.sessions, c)
      s1 == [ ClearT(s, s.ctx[x].pauseGeminiCloseTimer) EXCEPT
                !.ctx[x].pauseGeminiCloseTimer = NoTimer ]
  IN IF x = NoCtx THEN EmitTo(s, c, "error", "SESSION_NOT_FOUND")
     ELSE IF s.ctx[x].status \notin {"paused", "grace_period"}
          THEN EmitTo(s, c, "error", "INVALID_SESSION_STATE")
     ELSE IF IsSessionActive(s1, s.ctx[x].sessionId) THEN ResumeFinish(s1, c, x)
     ELSE AddTask(CreateLiveSession(s1, g, s.ctx[x].sessionId, c, x,
                                    s.ctx[x].conversationHistory),
                  Task("resume", "gemini", c, x, g, "", "", "", 0))

HandleResumeSession(c) ==
  /\ ~Urgent
  /\ Connected(St, c)
  /\ MoreInputs
  /\ LET x == SessCtx(sessions, c)
         opens == /\ x # NoCtx
                  /\ ctx[x].status \in {"paused", "grace_period"}
                  /\ ~IsSessionActive(St, ctx[x].sessionId)
     IN /\ opens => FreeLive # {}
        /\ Become(Input(ResumeSession(St, c, IF opens THEN Min(FreeLive) ELSE NoLive)))

\* after createLiveSession settled: GEMINI_REINIT_FAILED, or the rest of the handler
ResumeAfterGemini(t) ==
  /\ t.kind = "resume" /\ Settled(t)
  /\ LET s0 == RemoveTask(St, t)
     IN Become(IF live[t.g].promise = "rejected"
               THEN EmitTo(s0, t.c, "error", "GEMINI_REINIT_FAILED")
               ELSE ResumeFinish(s0, t.c, t.x))

\* after the update: session_resumed
ResumeAfterUpdate(t) ==
  /\ ~Urgent
  /\ t.kind = "resume" /\ t.pc = "update"
  /\ Become(EmitTo(RemoveTask(St, t), t.c, "session_resumed", ""))

\* ------------------------------------------------------- exam timers running
\* a warning timer runs
FireWarning(h) ==
  /\ ~Urgent
  /\ Due(h, "warning")
  /\ LET tm == timers[h]
         s0 == Run(St, h)
     IN Become(IF SessCtx(sessions, tm.c) # NoCtx
               THEN EmitTo(s0, tm.c, "time_warning", "")
               ELSE s0)

\* the update of auto-end: status completed, elapsed_time the time limit
MarkCompleted(s, x) ==
  [ s EXCEPT !.db.status = "completed",
             !.db.elapsed_time = s.ctx[x].timeLimit,
             !.cnt.ends = @ + 1 ]

\* the auto-end timer runs, up to its first await
FireAutoEnd(h) ==
  /\ ~Urgent
  /\ Due(h, "autoEnd")
  /\ LET tm  == timers[h]
         s0  == Run(St, h)
         cur == SessCtx(sessions, tm.c)
     IN Become(
          IF cur = NoCtx THEN s0
          ELSE IF ctx[cur].status \notin {"active", "paused"} THEN s0
          ELSE IF ctx[cur].conversationHistory # <<>>
               THEN AddTask(SaveConversationHistory(s0, cur),
                            Task("autoEnd", "save", tm.c, tm.x, NoLive, "", "", "",
                                 Len(ctx[cur].conversationHistory)))
               ELSE AddTask(MarkCompleted(s0, tm.x),
                            Task("autoEnd", "update", tm.c, tm.x, NoLive, "", "", "", 0)))

AutoEndAfterSave(t) ==
  /\ ~Urgent
  /\ t.kind = "autoEnd" /\ t.pc = "save"
  /\ Become(AddTask(MarkCompleted(RemoveTask(St, t), t.x), [ t EXCEPT !.pc = "update" ]))

\* after the update: closeLiveSession, session_ended, deregister, disconnect
AutoEndAfterUpdate(t) ==
  /\ ~Urgent
  /\ t.kind = "autoEnd" /\ t.pc = "update"
  /\ LET s1 == EmitTo(CloseLiveSession(RemoveTask(St, t), ctx[t.x].sessionId),
                      t.c, "session_ended", "timer_expired")
         s2 == [ ClearT(s1, s1.idleTimeouts[t.c]) EXCEPT
                   !.sessions = SessDelete(@, t.c),
                   !.idleTimeouts[t.c] = NoTimer ]
     IN Become(ServerDisconnect(s2, t.c))

\* ------------------------------------------------------ closeSessionImmediately
\* the end of closeSessionImmediately
CloseFinish(s, c, sid) ==
  ServerDisconnect([ CloseLiveSession(s, sid) EXCEPT !.sessions = SessDelete(@, c) ], c)

CloseSessionImmediately(sid) ==
  /\ ~Urgent
  /\ MoreInputs
  /\ LET i  == FindSessionBySessionId(St, sid)
         c  == sessions[i].client
         x  == sessions[i].x
         s1 == ClearT(ClearT(ClearTs(ClearT(St, ctx[x].disconnectTimer),
                  ctx[x].timerHandles), ctx[x].pauseGeminiCloseTimer), idleTimeouts[c])
         s2 == [ s1 EXCEPT !.ctx[x].disconnectTimer = NoTimer,
                           !.ctx[x].timerHandles = <<>>,
                           !.ctx[x].pauseGeminiCloseTimer = NoTimer,
                           !.idleTimeouts[c] = NoTimer ]
     IN Become(Input(
          IF i = 0 THEN St
          ELSE IF ctx[x].conversationHistory # <<>>
               THEN AddTask(SaveConversationHistory(s2, x),
                            Task("close", "save", c, x, NoLive, sid, "", "", 0))
               ELSE CloseFinish(s2, c, sid)))

CloseAfterSave(t) ==
  /\ ~Urgent
  /\ t.kind = "close" /\ t.pc = "save"
  /\ Become(CloseFinish(RemoveTask(St, t), t.c, t.sid))

\* ------------------------------------------------- SpeakingService.endSession
Reasons == {"completed", "cancelled"}

\* POST /session/:id/end by the owner: the select of the row is issued
EndSession(reason) ==
  /\ ~Urgent
  /\ MoreInputs
  /\ Become(Input(AddTask(St, [ Task("end", "select", 0, NoCtx, NoLive, Session, reason,
                                   db.status, db.elapsed_time)
                                EXCEPT !.m = db.pause_timestamp ])))

\* the row arrived: the elapsed time is computed and the terminal status written
EndAfterSelect(t) ==
  /\ ~Urgent
  /\ t.kind = "end" /\ t.pc = "select"
  /\ LET total == IF t.row = "paused" /\ t.m # NoTime
                  THEN t.n + (now - t.m) \div SecondMs
                  ELSE (now - db.server_start_time) \div SecondMs
     IN Become([ RemoveTask(St, t) EXCEPT
                   !.db.status = t.who,
                   !.db.elapsed_time = total,
                   !.cnt.ends = @ + 1 ])

\* ------------------------------------------------------------ onModuleDestroy
\* SpeakingGateway.onModuleDestroy, first part: every idle timeout is cleared and the
\* Map of them emptied, then the timers of every registered context are cleared
RECURSIVE ClearContextTimers(_, _)
ClearContextTimers(s, S) ==
  IF S = <<>> THEN s
  ELSE LET cx == s.ctx[Head(S).x]
       IN ClearContextTimers(
            ClearTs(ClearT(ClearT(s, cx.disconnectTimer), cx.pauseGeminiCloseTimer),
                    cx.timerHandles),
            Tail(S))

DestroyTimers(s) ==
  LET s1 == [ s EXCEPT !.timers = [ h \in TimerIds |->
                          IF \E c \in ClientIds : s.idleTimeouts[c] = h
                          THEN NullTimer ELSE @[h] ],
                       !.idleTimeouts = [ c \in ClientIds |-> NoTimer ] ]
  IN ClearContextTimers(s1, s1.sessions)

\* second part: closeLiveSession for the sessionId of every registered context
RECURSIVE DestroyAdapters(_, _)
DestroyAdapters(s, S) ==
  IF S = <<>> THEN s
  ELSE DestroyAdapters(CloseLiveSession(s, s.ctx[Head(S).x].sessionId), Tail(S))

\* last part: this.sessions.clear()
DestroySessions(s) == [ s EXCEPT !.sessions = <<>> ]

DestroyGateway(s) ==
  LET s1 == DestroyTimers(s)
  IN DestroySessions(DestroyAdapters(s1, s1.sessions))

\* GeminiService.onModuleDestroy: closeLiveSession for every key of activeSessions
DestroyGemini(s) == CloseLiveSession(s, Session)

\* the module is destroyed: the hooks of the gateway and of the adapter run
OnModuleDestroy ==
  /\ ~Urgent
  /\ MoreInputs
  /\ ~cnt.down
  /\ LET marked == [ St EXCEPT !.ctx = [ x \in CtxIds |->
                        IF \E i \in DOMAIN sessions : sessions[i].x = x
                        THEN [ @[x] EXCEPT !.shut = TRUE ] ELSE @[x] ],
                                !.cnt.down = TRUE ]
     IN Become(Input(DestroyGemini(DestroyGateway(marked))))

\* ------------------------------------------------------------------- Next
Next ==
  \/ \E hs \in Handshakes : HandleConnection(hs.sessionId, hs.token)
  \/ \E t \in Waiting, student \in BOOLEAN, code \in ActivationCodes :
       ConnLoaded(t, student, code)
  \/ \E t \in Waiting : ConnAfterGemini(t)
  \/ \E g \in LiveIds : GeminiConnected(g)
  \/ \E g \in LiveIds : GeminiConnectFailed(g)
  \/ \E g \in LiveIds : GeminiSetupComplete(g)
  \/ \E g \in LiveIds : GeminiClosed(g)
  \/ \E g \in LiveIds, msg \in ProviderTexts : GeminiError(g, msg)
  \/ \E h \in TimerIds : FireSetupTimeout(h)
  \/ Tick
  \/ \E h \in TimerIds : Jump(h)
  \/ \E c \in ClientIds : ClientDisconnect(c)
  \/ \E t \in Waiting : DiscAfterSave(t)
  \/ \E h \in TimerIds : FireGrace(h)
  \/ \E t \in Waiting : GraceAfterSelect(t)
  \/ \E t \in Waiting : GraceAfterUpdate(t)
  \/ \E g \in LiveIds : GeminiAudioResponse(g)
  \/ \E g \in LiveIds : GeminiInputTranscription(g)
  \/ \E c \in ClientIds, p \in Payloads, throws, dberr \in BOOLEAN :
       (throws => p = GoodPayload) /\ (dberr => throws) /\ HandleAudioChunk(c, p, throws, dberr)
  \/ \E t \in Waiting, dberr \in BOOLEAN : AudioAfterSave(t, dberr)
  \/ \E h \in TimerIds : FireIdle(h)
  \/ \E c \in ClientIds, dberr \in BOOLEAN : HandlePauseSession(c, dberr)
  \/ \E t \in Waiting : PauseAfterUpdate(t)
  \/ \E h \in TimerIds : FirePauseClose(h)
  \/ \E c \in ClientIds : HandleResumeSession(c)
  \/ \E t \in Waiting : ResumeAfterGemini(t)
  \/ \E t \in Waiting : ResumeAfterUpdate(t)
  \/ \E h \in TimerIds : FireWarning(h)
  \/ \E h \in TimerIds : FireAutoEnd(h)
  \/ \E t \in Waiting : AutoEndAfterSave(t)
  \/ \E t \in Waiting : AutoEndAfterUpdate(t)
  \/ CloseSessionImmediately(Session)
  \/ \E t \in Waiting : CloseAfterSave(t)
  \/ \E reason \in Reasons : EndSession(reason)
  \/ \E t \in Waiting : EndAfterSelect(t)
  \/ OnModuleDestroy

Spec == Init /\ [][Next]_vars

\* ------------------------------------------- a stream of chunks on one session
\* An untimed session was admitted on socket 1 (the state Spec reaches by
\* HandleConnection, ConnLoaded, GeminiConnected, GeminiSetupComplete and
\* ConnAfterGemini); from there the socket sends chunk after chunk while time passes.
RateStart ==
  /\ now = 0 /\ ticks = 0
  /\ sockets = << [connected |-> TRUE] >>
  /\ sessions = << [client |-> 1, x |-> 1] >>
  /\ ctx = [ x \in CtxIds |->
              IF x = 1
              THEN [ NullCtx EXCEPT !.clientId = 1, !.authAs = Owner, !.sessionId = Session,
                                    !.studentId = Owner, !.teilNumber = 1,
                                    !.status = "active", !.expectedEndTime = NoTime ]
              ELSE NullCtx ]
  /\ idleTimeouts = [ c \in ClientIds |-> NoTimer ]
  /\ timers = [ t \in TimerIds |-> NullTimer ]
  /\ tasks = EmptyBag
  /\ live = [ g \in LiveIds |->
               IF g = 1
               THEN [ NullLive EXCEPT !.sid = Session, !.c = 1, !.x = 1, !.ws = "open",
                                      !.status = "connected", !.setupComplete = TRUE,
                                      !.acked = TRUE, !.promise = "resolved" ]
               ELSE NullLive ]
  /\ activeSessions = 1
  /\ db = [ status |-> "active", student_id |-> Owner, use_timer |-> FALSE,
            teil_number |-> 1, server_start_time |-> 0, elapsed_time |-> 0,
            pause_timestamp |-> NoTime ]
  /\ transcript = <<>>
  /\ obs = Obs("session_ready", 1, "new")
  /\ cnt = [ inputs |-> 1, ends |-> 0, lost |-> FALSE, down |-> FALSE ]

\* socket 1 sends a well-formed chunk and the adapter takes it
RateChunk ==
  /\ Connected(St, 1)
  /\ Become(AudioChunk(St, 1, GoodPayload, FALSE))

\* time passes
RateStep ==
  /\ ticks < MaxRateSteps
  /\ Become([ St EXCEPT !.now = @ + RateStepMs, !.ticks = @ + 1 ])

NextRate == RateChunk \/ RateStep

SpecRate == RateStart /\ [][NextRate]_vars

\* ================================================================== claims
\* the contexts the sessions Map holds
Registered == { sessions[i].x : i \in DOMAIN sessions }

\* C1: under every interleaving of connection attempts, disconnects and timers, the
\* sessions Map never holds more than one SessionContext with the same sessionId
C1_OneContextPerSession ==
  \A i, j \in DOMAIN sessions :
    ctx[sessions[i].x].sessionId = ctx[sessions[j].x].sessionId => i = j

\* a socket connects in the step, with the session's id and its owner's token
OwnerConnects ==
  /\ Len(sockets') = Len(sockets) + 1
  /\ obs'.hs = [ sessionId |-> Session, token |-> Owner ]

GraceTimers(T, x)  == { h \in TimerIds : T[h].kind = "grace" /\ T[h].x = x }
GraceRunning(x)    == \E t \in Waiting : t.kind = "grace" /\ t.x = x

\* C2: the socket of an active context left, and the owner connects with the same
\* sessionId before the grace timer has run: the context is active again and
\* registered under the new socket, its conversationHistory is the same, and no grace
\* timer of it is pending
C2_Reconnects(i) ==
  LET x == sessions[i].x
      c == Len(sockets) + 1
  IN ( /\ OwnerConnects
       /\ ctx[x].sessionId = Session
       /\ ~Connected(St, sessions[i].client)
       /\ ctx[x].leftAs = "active"
       /\ ~GraceRunning(x) )
     => /\ SessCtx(sessions', c) = x
        /\ ctx'[x].clientId = c
        /\ ctx'[x].status = "active"
        /\ ctx'[x].conversationHistory = ctx[x].conversationHistory
        /\ GraceTimers(timers', x) = {}

C2_ReconnectWithinGrace == [][\A i \in DOMAIN sessions : C2_Reconnects(i)]_vars

\* the timers that belong to context x: its grace, pause-expiry, warning and auto-end
\* timers
OwnTimers(T, x) ==
  { h \in TimerIds : T[h].x = x /\ T[h].kind \in {"grace", "pauseClose", "warning", "autoEnd"} }

\* the grace callback t ends in the step
GraceEnds(t) ==
  /\ t \in Waiting /\ t.kind = "grace"
  /\ tasks' = tasks (-) SetToBag({t})

\* C3: when the grace callback of a disconnect ends, the row has status interrupted
\* and the elapsed time frozen at the disconnect, the context is no longer in the
\* sessions Map, no adapter session of it is open, its transcript was upserted once
\* since the disconnect (not at all if the history had no entries then), and no timer
\* of the context is pending, so none runs afterwards
C3_Ended(t) ==
  GraceEnds(t) =>
    /\ db'.status = "interrupted"
    /\ db'.elapsed_time = ctx[t.x].elapsedSeconds
    /\ \A i \in DOMAIN sessions' : sessions'[i].x # t.x
    /\ \A g \in LiveIds : live'[g].x = t.x => live'[g].ws \notin {"connecting", "open"}
    /\ ctx[t.x].flushes - ctx[t.x].leftFlushes =
         (IF ctx[t.x].leftLog = 0 THEN 0 ELSE 1)
    /\ OwnTimers(timers', t.x) = {}

C3_GraceExpiry == [][\A t \in Waiting : C3_Ended(t)]_vars

\* handleResumeSession sets the context of socket c active again in the step
Resumes(x) ==
  /\ Len(sockets') = Len(sockets)
  /\ ctx[x].status \in {"paused", "grace_period"}
  /\ ctx'[x].status = "active"

\* C4: a timed session that was paused when getElapsedSeconds gave E and is resumed
\* later, after any time, gets expectedEndTime = the time of the resume +
\* (timeLimit - E) seconds
C4_Budget(x) ==
  (Resumes(x) /\ ctx[x].timeLimit # 0 /\ ctx[x].expectedEndTime # NoTime)
  => ctx'[x].expectedEndTime = now' + (ctx[x].timeLimit - ctx[x].liveAtPause) * SecondMs

C4_RemainingBudget == [][\A x \in Registered : C4_Budget(x)]_vars

\* C5: when the owner connects with the sessionId of a registered context whose
\* status is grace_period, after a disconnect or after the pause timer ran, the
\* connection is admitted as a reconnection: the context is active and registered
\* under the new socket, and the socket is not refused as a duplicate
C5_Reconnects(i) ==
  LET x == sessions[i].x
      c == Len(sockets) + 1
  IN ( /\ OwnerConnects
       /\ ctx[x].sessionId = Session
       /\ ctx[x].status = "grace_period" )
     => /\ SessCtx(sessions', c) = x
        /\ ctx'[x].status = "active"
        /\ obs'.event = "session_ready" /\ obs'.code = "reconnected"

C5_GracePeriodReconnects == [][\A i \in DOMAIN sessions : C5_Reconnects(i)]_vars

\* the admission of socket c ends in the step without the socket being registered
ConnTasks(B, c) == { t \in BagToSet(B) : t.kind = "conn" /\ t.c = c }
Rejected(c) ==
  /\ \/ Len(sockets) + 1 = c /\ Len(sockets') = c
     \/ ConnTasks(tasks, c) # {}
  /\ ConnTasks(tasks', c) = {}
  /\ SessCtx(sessions', c) = NoCtx

\* the timers of contexts and sockets (all but the adapter's setup timeouts)
GatewayTimers(T) == { h \in TimerIds : T[h].kind \notin {"none", "setup"} }

\* C6: a step in which a connection is refused, with whatever code, changes neither
\* the sessions Map nor the status, socket, conversationHistory or timers of a
\* registered context; a pending grace timer is still pending after it
C6_Frame(c) ==
  Rejected(c) =>
    /\ sessions' = sessions
    /\ \A x \in Registered :
         /\ ctx'[x].status = ctx[x].status
         /\ ctx'[x].clientId = ctx[x].clientId
         /\ ctx'[x].conversationHistory = ctx[x].conversationHistory
         /\ ctx'[x].disconnectTimer = ctx[x].disconnectTimer
         /\ ctx'[x].pauseGeminiCloseTimer = ctx[x].pauseGeminiCloseTimer
         /\ ctx'[x].timerHandles = ctx[x].timerHandles
    /\ idleTimeouts' = idleTimeouts
    /\ \A h \in GatewayTimers(timers) \cup GatewayTimers(timers') : timers'[h] = timers[h]

C6_RejectionChangesNothing == [][\A c \in ClientIds : C6_Frame(c)]_vars

\* a socket with another student's token was just refused (4010) while the grace
\* timer of the registered context is pending
C6_Witness ==
  /\ obs.event = "connection_error" /\ obs.code = "4010"
  /\ \E x \in Registered : GraceTimers(timers, x) # {}

\* C7: an audio chunk that arrives from a connected socket whose context is not
\* active (paused, grace_period, interrupted) is answered with the error
\* SESSION_NOT_ACTIVE, is not handed to the adapter, and changes nothing else: the
\* context's status stays as it was
C7_Refused(c, p, throws) ==
  LET x == SessCtx(sessions, c)
      r == AudioChunk(St, c, p, throws)
  IN (Connected(St, c) /\ x # NoCtx /\ ctx[x].status # "active")
     => /\ r.obs = Emit(St, "error", c, "SESSION_NOT_ACTIVE").obs
        /\ ~r.obs.sent
        /\ r.ctx = ctx
        /\ [ r EXCEPT !.obs = Quiet ] = St

C7_NotActiveRefused ==
  \A c \in DOMAIN sockets, p \in Payloads, throws \in BOOLEAN : C7_Refused(c, p, throws)

\* a chunk was just refused with SESSION_NOT_ACTIVE for a context in grace_period
C7_Witness ==
  /\ obs.event = "error" /\ obs.code = "SESSION_NOT_ACTIVE"
  /\ SessCtx(sessions, obs.c) # NoCtx
  /\ ctx[SessCtx(sessions, obs.c)].status = "grace_period"

\* C9: a chunk that is canonical Base64 and longer than 100 * 1024 characters, sent
\* by a connected socket whose context is active, is answered with the error
\* AUDIO_CHUNK_TOO_LARGE; it is not handed to the adapter, chunkTimestamps is
\* unchanged, and the context stays active
C9_Oversized(c, p, throws) ==
  LET x == SessCtx(sessions, c)
      r == AudioChunk(St, c, p, throws)
  IN ( /\ Connected(St, c) /\ x # NoCtx /\ ctx[x].status = "active"
       /\ p.type = "string" /\ IsValidBase64(p) /\ p.len > MaxAudioChunkSize )
     => /\ r.obs = Emit(St, "error", c, "AUDIO_CHUNK_TOO_LARGE").obs
        /\ ~r.obs.sent
        /\ r.ctx[x].sends = ctx[x].sends
        /\ r.ctx[x].chunkTimestamps = ctx[x].chunkTimestamps
        /\ r.ctx[x].status = "active"
        /\ r.tasks = tasks /\ r.db = db /\ r.sessions = sessions

C9_TooLargeRefused ==
  \A c \in DOMAIN sockets, p \in Payloads, throws \in BOOLEAN : C9_Oversized(c, p, throws)

\* an oversized chunk was just refused and the context of its socket is active
C9_Witness ==
  /\ obs.event = "error" /\ obs.code = "AUDIO_CHUNK_TOO_LARGE"
  /\ SessCtx(sessions, obs.c) # NoCtx
  /\ ctx[SessCtx(sessions, obs.c)].status = "active"

\* C10: however often the session is ended (endSession, closeSessionImmediately, the
\* auto-end timer after a manual end), a terminal status is written to its row only
\* once, and an adapter session is closed at most once
C10_EndedOnce ==
  /\ cnt.ends <= 1
  /\ \A g \in LiveIds : live[g].closes <= 1

\* the chunks of context x handed to the adapter in the second that ends with the
\* i-th of them
SentInWindow(x, i) ==
  { j \in 1..i : ctx[x].sends[i] - ctx[x].sends[j] < RateWindowMs }

\* C8: in every second at most 50 chunks of a session are handed to the adapter; a
\* chunk that arrives when chunkTimestamps holds 50 arrivals of the last second is
\* answered with an error (RATE_LIMIT_EXCEEDED if it passes the checks that come
\* before the rate check), is not handed to the adapter and is not added to
\* chunkTimestamps
C8_Excess(c, p, throws) ==
  LET x == SessCtx(sessions, c)
      r == AudioChunk(St, c, p, throws)
  IN (Connected(St, c) /\ x # NoCtx /\ Len(RecentChunks(ctx[x], now)) >= MaxChunksPerSecond)
     => /\ r.obs.event = "error" /\ r.obs.c = c
        /\ (ctx[x].status = "active" /\ PayloadError(p) = "")
             => r.obs.code = "RATE_LIMIT_EXCEEDED"
        /\ ~r.obs.sent
        /\ r.ctx[x].sends = ctx[x].sends
        /\ r.ctx[x].chunkTimestamps = ctx[x].chunkTimestamps

C8_RateLimit ==
  /\ \A x \in Registered : \A i \in DOMAIN ctx[x].sends :
       Cardinality(SentInWindow(x, i)) <= MaxChunksPerSecond
  /\ \A c \in DOMAIN sockets, p \in Payloads, throws \in BOOLEAN : C8_Excess(c, p, throws)

\* a chunk was just refused with RATE_LIMIT_EXCEEDED after more than 50 chunks had
\* been handed to the adapter, some of them more than a second ago
C8_Witness ==
  /\ obs.event = "error" /\ obs.code = "RATE_LIMIT_EXCEEDED"
  /\ \E x \in Registered :
       /\ Len(ctx[x].sends) > MaxChunksPerSecond
       /\ Len(RecentChunks(ctx[x], now)) = MaxChunksPerSecond

\* the pause timer h runs in this step: it was due, it is gone, and no event from
\* outside took it away
PauseExpires(h) ==
  /\ Due(h, "pauseClose")
  /\ timers'[h].kind = "none"
  /\ cnt'.inputs = cnt.inputs

\* no call made for context x has its provider socket open or opening, or is registered
AdapterClosed(L, A, x) ==
  \A g \in LiveIds : L[g].x = x => L[g].ws \notin {"connecting", "open"} /\ A # g

C11_Expiry(h) ==
  PauseExpires(h) =>
    LET x == timers[h].x
    IN /\ obs'.event = "pause_timeout" /\ obs'.c = timers[h].c
       /\ AdapterClosed(live', activeSessions', x)
       /\ \E i \in DOMAIN sessions' : sessions'[i].x = x
       /\ ctx'[x].status \in {"paused", "grace_period"}

\* a resume_session of socket c that opens the adapter again hands it the log
C11_Reopen(t) ==
  (t.kind = "resume" /\ t.pc = "gemini" /\ t \notin Waiting) =>
    /\ live'[t.g].ws = "connecting"
    /\ live'[t.g].context = ctx[t.x].conversationHistory

\* the re-opened adapter resolves: the context is Active again
C11_Resumed(t) ==
  (t.kind = "resume" /\ Settled(t) /\ live[t.g].promise = "resolved"
     /\ tasks' = tasks (-) SetToBag({t}) (+) SetToBag({[t EXCEPT !.pc = "update", !.g = NoLive]})) =>
    /\ ctx'[t.x].status = "active"
    /\ IsSessionActive([live |-> live', activeSessions |-> activeSessions'], Session)

\* C11: when the 60-second pause timer runs without a resume, its socket is sent
\* pause_timeout, the adapter is closed and the context stays registered, paused or in
\* grace_period; a later resume_session opens the adapter again with the context's
\* conversationHistory and, when that open resolves, the context is active again.
C11_PauseExpiry ==
  [][ /\ \A h \in TimerIds : C11_Expiry(h)
      /\ \A t \in BagToSet(tasks') : C11_Reopen(t)
      /\ \A t \in Waiting : C11_Resumed(t) ]_vars

\* the auto-end callback t ends in the step
AutoEndEnds(t) ==
  /\ t \in Waiting /\ t.kind = "autoEnd" /\ t.pc = "update"
  /\ tasks' = tasks (-) SetToBag({t})

\* the timers of context x and of socket c
TimersOf(T, x, c) ==
  OwnTimers(T, x) \cup { h \in TimerIds : T[h].kind = "idle" /\ T[h].c = c }

C12_Ended(t) ==
  AutoEndEnds(t) =>
    /\ t.n > 0 => transcript # <<>>
    /\ db'.status = "completed"
    /\ AdapterClosed(live', activeSessions', t.x)
    /\ obs'.event = "session_ended" /\ obs'.c = t.c
    /\ \A i \in DOMAIN sessions' : sessions'[i].x # t.x
    /\ TimersOf(timers', t.x, t.c) = {}
    /\ ~Connected([sockets |-> sockets'], t.c)

\* C12: when the auto-end callback of a session has run to its end, the transcript
\* that was not empty when the timer fired has been saved, the row says completed, the
\* adapter is closed, session_ended was sent, the context is no longer registered,
\* no timer of the context or its socket is pending (so no grace period was started),
\* and the socket is disconnected.
C12_AutoEnd == [][\A t \in Waiting : C12_Ended(t)]_vars

\* closeSessionImmediately ends in the step for context x: its continuation t ends,
\* or the call found nothing to save and ran to its end at once
CloseEnds(x) ==
  \/ \E t \in Waiting : t.kind = "close" /\ t.x = x /\ tasks' = tasks (-) SetToBag({t})
  \/ /\ cnt'.inputs = cnt.inputs + 1
     /\ \E i \in DOMAIN sessions : sessions[i].x = x
     /\ \A i \in DOMAIN sessions' : sessions'[i].x # x
     /\ \A t \in BagToSet(tasks') : t.kind = "close" => t \in Waiting

C13_Closed(x) ==
  CloseEnds(x) =>
    /\ TimersOf(timers', x, ctx[x].clientId) = {}
    /\ ctx[x].conversationHistory # <<>> => ctx[x].flushes > 0
    /\ AdapterClosed(live', activeSessions', x)
    /\ \A i \in DOMAIN sessions' : sessions'[i].x # x
    /\ ~Connected([sockets |-> sockets'], ctx[x].clientId)

\* C13: when closeSessionImmediately has run to its end for a context, whatever the
\* context's status was and whatever arrived during the save, no timer of the context
\* or its socket is pending (no grace timer among them), its transcript, if not empty,
\* has been saved, its adapter is closed, it is no longer registered and its socket
\* is disconnected.
C13_ForcedClose == [][\A x \in CtxIds : C13_Closed(x)]_vars

\* the gateway's onModuleDestroy run in the current state: every registered context
\* has no timer left and its adapter closed, and the Map is empty
C14_Routine ==
  LET r == DestroyGateway(St)
  IN /\ r.sessions = <<>>
     /\ \A x \in Registered :
          /\ TimersOf(r.timers, x, ctx[x].clientId) = {}
          /\ AdapterClosed(r.live, r.activeSessions, x)

\* its order: when the timers have been cleared no adapter has been touched, and when
\* the adapters have been closed every context is still registered
C14_Order ==
  LET s1 == DestroyTimers(St)
      s2 == DestroyAdapters(s1, s1.sessions)
  IN /\ \A x \in Registered : TimersOf(s1.timers, x, ctx[x].clientId) = {}
     /\ s1.live = live /\ s1.activeSessions = activeSessions /\ s1.sessions = sessions
     /\ s2.timers = s1.timers /\ s2.sessions = sessions

\* afterwards: no timer of a context that was registered is pending
C14_Later ==
  cnt.down => \A x \in CtxIds : ctx[x].shut => TimersOf(timers, x, ctx[x].clientId) = {}

\* C14: onModuleDestroy leaves every context that was registered without a pending
\* timer and with its adapter closed, and the sessions Map empty; it clears the timers
\* before it closes the adapters and closes the adapters before it empties the Map;
\* and no timer of such a context is pending at any later time.
C14_Shutdown == C14_Routine /\ C14_Order /\ C14_Later

\* C15: a createLiveSession call whose promise was rejected (setup timeout, provider
\* close or provider error before setup completion, connect failure) has no handle in
\* activeSessions, in whatever order the connect resolution, the timeout and the
\* provider's events came.
C15_FailedOpenLeavesNoHandle ==
  \A g \in LiveIds : live[g].promise = "rejected" => activeSessions # g

\* the promise of call g resolves in the step
Resolves(g) == live[g].promise = "pending" /\ live'[g].promise = "resolved"

C16_Resolved(g) ==
  Resolves(g) =>
    /\ live'[g].acked
    /\ activeSessions' = g
    /\ live'[g].setupComplete
    /\ IsSessionActive([live |-> live', activeSessions |-> activeSessions'], live[g].sid)

\* C16: the promise of a createLiveSession call resolves only when the provider has
\* sent setupComplete for it, and when it resolves the call's handle is the one
\* registered for the session, marked setup complete and connected, so that
\* isSessionActive is true and a send finds a handle that is ready.
C16_OpenResolvesReady == [][\A g \in LiveIds : C16_Resolved(g)]_vars

\* the calls for the session whose provider socket is open
OpenHandles(L) == { g \in LiveIds : L[g].sid = Session /\ L[g].ws = "open" }

\* the entry of the session in activeSessions is replaced by another call's
Overwritten ==
  /\ activeSessions # NoLive /\ activeSessions' # NoLive
  /\ activeSessions' # activeSessions

\* C17: at no time do two createLiveSession calls for the session have their provider
\* socket open, and the session's entry in activeSessions is replaced by another
\* call's only when the handle it held has been closed.
C17_OneHandlePerSession ==
  [][ /\ Cardinality(OpenHandles(live')) <= 1
      /\ Overwritten => live[activeSessions].ws \notin {"open", "connecting"} ]_vars

\* the session has no handle that can carry a chunk: no entry, setup not complete,
\* or an entry whose socket was closed (marked disconnected by onclose, or no longer open)
NoUsableHandle ==
  \/ activeSessions = NoLive
  \/ ~live[activeSessions].setupComplete
  \/ live[activeSessions].status = "disconnected"
  \/ live[activeSessions].ws # "open"

\* C18: sendAudioChunk for a session that has no entry in activeSessions, whose setup
\* is not complete or whose handle was closed returns an error and puts nothing on
\* the wire, whatever the SDK does with a send on a closed socket.
C18_SendFailsFast ==
  \A throws \in BOOLEAN :
    NoUsableHandle =>
      /\ SendAudioChunk(St, Session, throws).error # ""
      /\ ~SendAudioChunk(St, Session, throws).wire

\* C19: closeLiveSession for a session id that has no entry in activeSessions changes
\* nothing; after a call the session has no entry, also when session.close() throws;
\* and a second call changes nothing.
C19_CloseIdempotent ==
  \A sid \in {Session, "sX"}, th1, th2 \in BOOLEAN :
    LET once == CloseLive(St, sid, th1)
    IN /\ (sid # Session \/ activeSessions = NoLive) => once = St
       /\ sid = Session => once.activeSessions = NoLive
       /\ CloseLive(once, sid, th2) = once

\* closeLiveSession has closed a registered handle
C19_Witness ==
  /\ activeSessions = NoLive
  /\ \E g \in LiveIds : live[g].closes = 1 /\ live[g].ws = "closing"

\* the provider closes the socket of call g, or reports an error on it, in the step
ProviderFault(g) ==
  \/ live[g].ws = "open" /\ live'[g].ws \notin {"open", "closing"}
  \/ /\ live[g].ws = "open"
     /\ obs'.event = "gemini_error" /\ obs'.code = "GEMINI_LIVE_ERROR" /\ obs'.c = live[g].c

C20_Marked(g) ==
  LET x == live[g].x
  IN (ProviderFault(g) /\ live[g].acked /\ x \in Registered /\ ctx[x].status = "active") =>
       /\ ctx'[x].status = "interrupted"
       /\ ctx[x].conversationHistory # <<>> => ctx'[x].flushes > ctx[x].flushes

\* C20: when the provider closes the socket of a live session's call or reports an
\* error on it, the session's context becomes interrupted and its transcript, if
\* not empty, is saved.
C20_AdapterFaultInterrupts == [][\A g \in LiveIds : C20_Marked(g)]_vars

\* the context objects that exist
Contexts(C) == { x \in CtxIds : C[x].status # "none" }

\* C21: the socket a registered context is attached to, by a fresh admission or by a
\* reconnection, presented a token of the context's studentId, and the studentId of
\* a context never changes while the context exists.
C21_OwnerOnly ==
  [][ /\ \A i \in DOMAIN sessions' :
           LET x == sessions'[i].x
           IN /\ ctx'[x].authAs = ctx'[x].studentId
              /\ ctx'[x].clientId = sessions'[i].client
      /\ \A x \in Contexts(ctx) \cap Contexts(ctx') : ctx'[x].studentId = ctx[x].studentId ]_vars

\* a context was just moved to a second socket by a reconnection
C21_Witness ==
  /\ obs.event = "session_ready" /\ obs.code = "reconnected"
  /\ \E i \in DOMAIN sessions :
       /\ sessions[i].client = obs.c /\ sessions[i].x # obs.c
       /\ ctx[sessions[i].x].authAs = Owner

\* connection attempts, one for each outcome of the admission: the handshake, the
\* students row (student), the activation_codes row (code), and whether the adapter
\* fails to establish (upstream)
Attempt(sid, tok, student, code, upstream) ==
  [ sessionId |-> sid, token |-> tok, student |-> student, code |-> code,
    upstream |-> upstream ]
Attempts ==
  { Attempt(hs.sessionId, hs.token, TRUE, "active", FALSE) : hs \in Handshakes }
  \cup { Attempt(Session, Owner, TRUE, code, FALSE) : code \in ActivationCodes }
  \cup { Attempt(Session, Owner, FALSE, "active", FALSE),
         Attempt(Session, Owner, TRUE, "active", TRUE) }

\* the admission check that fails first for attempt a in the current state, in the
\* order of the gatekeeper's steps ("" if every check passes)
FailedCheck(a) ==
  LET i == FindSessionBySessionId(St, a.sessionId)
  IN IF a.sessionId = "" THEN "missing-target"
     ELSE IF a.token = "" THEN "missing-credential"
     ELSE IF a.token = "bad" THEN "invalid-credential"
     ELSE IF i # 0
          THEN IF ctx[sessions[i].x].status # "grace_period" THEN "duplicate-connection"
               ELSE IF ctx[sessions[i].x].studentId # a.token THEN "ownership-mismatch"
               ELSE ""
     ELSE IF a.sessionId # Session THEN "not-found"
     ELSE IF db.status # "active" THEN "wrong-status"
     ELSE IF db.student_id # a.token THEN "ownership-mismatch"
     ELSE IF ~a.student THEN "ownership-not-verified"
     ELSE IF a.code = "throws" THEN "unexpected-failure"
     ELSE IF a.code # "active" THEN "expired-entitlement"
     ELSE IF a.upstream THEN "upstream-init-failed"
     ELSE ""

\* the code handleConnection sends for attempt a made in the current state ("" if it
\* sends none)
AttemptCode(a) ==
  LET c == Len(sockets) + 1
      r == Connection(Connecting(St, a.sessionId, a.token), c, a.sessionId, a.token)
      loads == { t \in BagToSet(r.tasks) : t.kind = "conn" /\ t.pc = "load" /\ t.c = c }
  IN IF r.obs.event = "connection_error" THEN r.obs.code
     ELSE IF loads = {} THEN ""
     ELSE LET t == CHOOSE u \in loads : TRUE
              e == RecordError(t.row, db.student_id, t.who, a.student, a.code)
          IN IF e # "" THEN e
             ELSE IF a.upstream THEN GeminiInitFailed
             ELSE ""

\* C22: the code sent for a refused connection attempt identifies the admission check
\* that failed first: two attempts that fail different checks (missing target,
\* not-found, wrong-status, ownership-not-verified, expired-entitlement,
\* duplicate-connection, upstream-init-failed, missing-credential, invalid-credential,
\* ownership-mismatch, unexpected-failure) get different codes, a missing sessionId
\* and an unknown sessionId among them, and an attempt is refused only if a check fails.
C22_CodeIdentifiesCheck ==
  LET code == [ a \in Attempts |-> AttemptCode(a) ]
  IN \A a, b \in Attempts :
       FailedCheck(a) # FailedCheck(b) => code[a] # code[b]

\* C23: no event sent to a client (connection_error, error, gemini_error) carries the
\* message of a caught Error of the adapter, the SDK or the store: its payload is
\* the fixed code and message of the event.
C23_NoInternalText == obs.text = ""

\* the admission t of a socket passed every check and its adapter's setup completed:
\* its continuation runs in the step
Admitted(t) ==
  /\ t \in Waiting /\ t.kind = "conn" /\ t.pc = "gemini"
  /\ live[t.g].promise = "resolved"
  /\ tasks' = tasks (-) SetToBag({t})

\* the pending timers of context x of a kind
KindTimers(T, x, kind) == { h \in TimerIds : T[h].kind = kind /\ T[h].x = x }

C24_Admission(t) ==
  Admitted(t) =>
    /\ Cardinality({ i \in DOMAIN sessions' : ctx'[sessions'[i].x].sessionId = t.sid }) = 1
    /\ SessCtx(sessions', t.c) = t.x
    /\ ctx'[t.x].status = "active"
    /\ activeSessions' # NoLive
    /\ live'[activeSessions'].ws = "open" /\ live'[activeSessions'].setupComplete
    /\ obs'.event = "session_ready" /\ obs'.c = t.c
    /\ ctx'[t.x].timeLimit # 0 =>
         /\ KindTimers(timers', t.x, "warning") # {}
         /\ KindTimers(timers', t.x, "autoEnd") # {}

\* C24: when a connection attempt has passed every admission check and its adapter's
\* setup has completed, exactly one context is registered for its sessionId, that
\* context is the attempt's and is active, the session has an open adapter handle,
\* session_ready was sent to the socket, and, if the session is timed, warning and
\* auto-end timers of the context are pending.
C24_AdmissionCompletes == [][\A t \in Waiting : C24_Admission(t)]_vars

\* the step is the write of SpeakingService.endSession
RestEnds == \E t \in Waiting : t.kind = "end" /\ tasks' = tasks (-) SetToBag({t})

\* a handler or timer of the gateway marks the session of context x interrupted or
\* completed in the step: in the context, or in the row of the session
Ends(x) ==
  /\ x \in Contexts(ctx')
  /\ ~RestEnds
  /\ \/ ctx'[x].status = "interrupted" /\ ctx[x].status # "interrupted"
     \/ db'.status \in {"interrupted", "completed"} /\ db'.status # db.status

\* C25: when the gateway marks a context or the row of its session interrupted or
\* completed (grace expiry, a failed forward, auto-end), the context's
\* conversationHistory, if it has entries, has been saved to the transcript store at
\* least once.
C25_FlushedBeforeEnd ==
  [][\A x \in CtxIds :
       (Ends(x) /\ ctx'[x].conversationHistory # <<>>) => ctx'[x].flushes > 0]_vars

\* context x is removed from the sessions Map in the step
Removed(x) ==
  /\ \E i \in DOMAIN sessions : sessions[i].x = x
  /\ \A i \in DOMAIN sessions' : sessions'[i].x # x

\* C26: when a context is removed from the sessions Map (auto-end, grace expiry,
\* closeSessionImmediately, onModuleDestroy), no timer of the context or of its socket
\* is pending (warning, auto-end, pause-expiry, grace, idle) and no adapter call made
\* for it is open, opening or registered.
C26_RemovedClean ==
  [][\A x \in CtxIds :
       Removed(x) => /\ TimersOf(timers', x, ctx[x].clientId) = {}
                     /\ AdapterClosed(live', activeSessions', x)]_vars

\* the pending timers of one purpose: of context x (grace, pause-expiry, auto-end, the
\* warning of threshold arg), or the idle timeouts of socket c
Purpose(T, kind, x, arg) ==
  { h \in TimerIds : T[h].kind = kind /\ T[h].x = x /\ T[h].arg = arg }
IdleTimers(T, c) == { h \in TimerIds : T[h].kind = "idle" /\ T[h].c = c }

\* C27: at any time, under every interleaving of pause, resume, audio, disconnect and
\* reconnect handling and of the continuations of their awaits, at most one timer of
\* each purpose is pending for a context: one grace timer, one pause-expiry timer,
\* one auto-end timer, one warning of each threshold, and one idle timeout of a socket.
C27_OneTimerPerPurpose ==
  /\ \A x \in CtxIds :
       /\ \A kind \in {"grace", "pauseClose", "autoEnd"} :
            Cardinality(Purpose(timers, kind, x, 0)) <= 1
       /\ \A i \in DOMAIN WarningThresholds :
            Cardinality(Purpose(timers, "warning", x, WarningThresholds[i])) <= 1
  /\ \A c \in ClientIds : Cardinality(IdleTimers(timers, c)) <= 1

\* the state of its context that a timer of a kind was set for
SetFor(kind) ==
  IF kind = "pauseClose" THEN "paused"
  ELSE IF kind = "grace" THEN "grace_period"
  ELSE "active"

\* timer h is stale: its context is no longer registered, or is not in the state the
\* timer was set for
Stale(h) ==
  \/ timers[h].x \notin Registered
  \/ ctx[timers[h].x].status # SetFor(timers[h].kind)

\* the step leaves everything but the list of timers as it was and sends no event
Nothing ==
  /\ sessions' = sessions /\ tasks' = tasks /\ db' = db /\ transcript' = transcript
  /\ activeSessions' = activeSessions
  /\ \A x \in Registered : /\ ctx'[x].status = ctx[x].status
                            /\ ctx'[x].conversationHistory = ctx[x].conversationHistory
                            /\ ctx'[x].elapsedSeconds = ctx[x].elapsedSeconds
  /\ \A g \in LiveIds : LiveUsed(St, g) => live'[g].ws = live[g].ws
  /\ obs'.event = ""

\* C28: the callback of a warning, auto-end, pause-expiry or grace timer that runs
\* when its context is no longer registered, or is no longer in the state the timer
\* was set for, changes nothing: no status, no adapter, no write to the store and no
\* event to a client.
C28_StaleTimerNoOp ==
  [][\A h \in TimerIds :
       ( /\ obs'.timer = h
         /\ timers[h].kind \in {"warning", "autoEnd", "pauseClose", "grace"}
         /\ Stale(h) ) => Nothing]_vars

\* the callback of pause timer h runs in the step while its context is active
ExpiresActive(h) ==
  /\ obs'.timer = h /\ timers[h].kind = "pauseClose"
  /\ timers[h].x \in Registered /\ ctx[timers[h].x].status = "active"

\* C29: a registered context that is active has no pause-expiry timer pending,
\* however pause_session and resume_session and the continuations of their awaits
\* interleave, and the callback of a pause-expiry timer never closes the adapter of a
\* context that is active.
C29_ResumeCancelsPauseExpiry ==
  [][ /\ \A i \in DOMAIN sessions' :
           ctx'[sessions'[i].x].status = "active"
             => KindTimers(timers', sessions'[i].x, "pauseClose") = {}
      /\ \A h \in TimerIds :
           ExpiresActive(h) => /\ activeSessions' = activeSessions
                               /\ \A g \in LiveIds : live'[g].ws = live[g].ws ]_vars

\* the exam timers of context x: its warnings and its auto-end
ExamTimers(T, x) == KindTimers(T, x, "warning") \cup KindTimers(T, x, "autoEnd")

LeavesActive(x) ==
  /\ ctx[x].status = "active"
  /\ ctx'[x].status \in {"paused", "grace_period"}

\* C31: when a context leaves the state active (pause or disconnect) its
\* elapsedSeconds becomes the live elapsed time of that moment; the elapsed_time that
\* handlePauseSession writes to the row and the elapsedSeconds that session_paused
\* reports are that value; and elapsedSeconds does not change while the context is
\* not active.
C31_SnapshotFrozen ==
  [][\A x \in Registered :
       /\ LeavesActive(x) =>
            /\ ctx'[x].elapsedSeconds = GetElapsedSeconds(ctx[x], now)
            /\ db'.status = "paused" /\ db.status # "paused"
                 => db'.elapsed_time = GetElapsedSeconds(ctx[x], now)
       /\ (obs'.event = "session_paused" /\ obs'.c = ctx[x].clientId)
            => ctx'[x].elapsedSeconds = ctx[x].liveAtPause
       /\ (ctx[x].status # "active" /\ ctx'[x].status \notin {"active", "none"})
            => ctx'[x].elapsedSeconds = ctx[x].elapsedSeconds ]_vars

\* socket c has a registered context whose chunk passes every check of
\* handleAudioChunk and is handed to the adapter
Accepted(c) ==
  LET x == SessCtx(sessions, c)
  IN /\ Connected(St, c) /\ x # NoCtx
     /\ ~NotActive(ctx[x]) /\ ~RateLimited(ctx[x], now)
     /\ IsSessionActive(St, ctx[x].sessionId)

\* the state the handler leaves when the forward of an accepted chunk of socket c
\* fails, up to its first await
C32_Caught(c, dberr) ==
  LET x == SessCtx(sessions, c)
      r == AudioChunkDb(St, c, GoodPayload, TRUE, dberr)
  IN /\ r.ctx[x].lastGeminiError = SdkText
     /\ r.ctx[x].status = "interrupted"
     /\ r.obs.event = "gemini_error" /\ r.obs.c = c /\ r.obs.code = "AUDIO_FORWARD_FAILED"
     /\ r.ctx[x].sends = Append(ctx[x].sends, now)
     /\ r.sessions = sessions /\ r.timers = ClearTimeout(timers, idleTimeouts[c])
     /\ IF ctx[x].conversationHistory # <<>>
        THEN /\ ~dberr => r.transcript = ctx[x].conversationHistory
             /\ dberr => r.transcript = transcript
             /\ r.db = db
             /\ r.tasks = tasks (+) SetToBag({Task("audio", "save", c, x, NoLive, "", "", "", 0)})
        ELSE /\ ~dberr => r.db.status = "interrupted"
             /\ dberr => r.db = db
             /\ r.transcript = transcript /\ r.tasks = tasks

\* the state the handler leaves when saveConversationHistory has returned
C32_Saved(t, dberr) ==
  LET r == AudioSaved(St, t, dberr)
  IN /\ ~dberr => r.db.status = "interrupted"
     /\ dberr => r.db = db
     /\ r.ctx = ctx /\ r.transcript = transcript /\ r.sessions = sessions
     /\ r.tasks = tasks (-) SetToBag({t})
     /\ r.obs = Quiet

\* C32: when the adapter refuses an accepted chunk, handleAudioChunk records the
\* error's message in lastGeminiError, sets the context's status to interrupted,
\* sends gemini_error to the socket, saves the conversationHistory if it has entries,
\* writes status interrupted to the row, and hands the chunk to the adapter once only;
\* when the store refuses the save or the update the handler does the rest all the same.
C32_ForwardFailure ==
  /\ \A c \in ClientIds, dberr \in BOOLEAN : Accepted(c) => C32_Caught(c, dberr)
  /\ \A t \in Waiting, dberr \in BOOLEAN :
       (t.kind = "audio" /\ t.pc = "save") => C32_Saved(t, dberr)

\* the forward of a chunk has just failed for a context with entries: the
\* transcript is saved, the context interrupted and the update of the row to come
C32_Witness ==
  /\ obs.event = "gemini_error" /\ obs.code = "AUDIO_FORWARD_FAILED"
  /\ \E t \in Waiting :
       /\ t.kind = "audio" /\ t.c = obs.c
       /\ ctx[t.x].status = "interrupted" /\ ctx[t.x].lastGeminiError = SdkText
       /\ ctx[t.x].conversationHistory # <<>>
       /\ transcript = ctx[t.x].conversationHistory
       /\ db.status = "active"

\* a handler or a timer callback of context x is waiting on an await
Busy(x) == \E t \in Waiting : t.x = x

\* C33: a registered context that is timed and active, with no handler of it in
\* progress, has an auto-end timer pending: after a fresh admission, after a resume
\* and after a reconnection from the grace period.
C33_ActiveHasAutoEnd ==
  \A x \in Registered :
    (ctx[x].timeLimit # 0 /\ ctx[x].status = "active" /\ ~Busy(x))
      => KindTimers(timers, x, "autoEnd") # {}

\* the step is a reconnection that moves context x to a new socket
ReconnectsInto(x) ==
  /\ obs'.event = "session_ready" /\ obs'.code = "reconnected"
  /\ SessCtx(sessions', obs'.c) = x

\* the grace callback t continues in the step
GraceContinues(t) == t.kind = "grace" /\ tasks' # tasks /\ t \notin BagToSet(tasks')

\* C34: of one disconnect either the reconnection or the grace expiry takes place.
\* Once the callback of the grace timer has started, also while it awaits the store,
\* no reconnection is admitted into its context; and a callback whose context was
\* moved to a new socket by a reconnection does not write interrupted to the row,
\* and the step of a reconnection leaves the session with its adapter registered.
C34_ReconnectOrExpiry ==
  [][ /\ \A t \in Waiting :
           t.kind = "grace" =>
             /\ ~ReconnectsInto(t.x)
             /\ (GraceContinues(t) /\ t.x \in Registered /\ ctx[t.x].clientId # t.c)
                  => (db'.status = "interrupted" => db.status = "interrupted")
      /\ \A x \in CtxIds : ReconnectsInto(x) => activeSessions' # NoLive ]_vars

\* C35: a context whose status has become interrupted keeps that status as long as
\* it exists: no disconnect, reconnection, resume or timer callback sets it to
\* grace_period, paused or active.
C35_InterruptedAbsorbing ==
  [][\A x \in CtxIds :
       ctx[x].status = "interrupted" => ctx'[x].status \in {"interrupted", "none"}]_vars

\* context x was moved to a socket other than the one that created it
Reconnected(x) == x \in Registered /\ ctx[x].clientId # x

\* C36: after a reconnection, a reply of the examiner that the provider delivers on
\* the open adapter call of the context is sent as audio_response to the socket the
\* context is now attached to and appended to its conversationHistory.
C36_RepliesFollowReconnect ==
  \A g \in LiveIds :
    LET x == live[g].x
        r == OnAudioResponse(St, g)
    IN ( /\ live[g].ws = "open" /\ live[g].acked
         /\ Reconnected(x) /\ Connected(St, ctx[x].clientId) )
       => /\ r.obs.event = "audio_response" /\ r.obs.c = ctx[x].clientId
          /\ r.ctx[x].conversationHistory = Append(ctx[x].conversationHistory, "elena")

\* C37: a registered context that is paused, with no handler of it in progress, has
\* a pause-expiry timer pending, also when a pause_session or a resume_session ended
\* with an error.
C37_PausedHasExpiry ==
  \A x \in Registered :
    (ctx[x].status = "paused" /\ ~Busy(x)) => KindTimers(timers, x, "pauseClose") # {}

\* C38: an auto-end timer that is pending for a context is due at the context's
\* expectedEndTime, after a fresh admission and after a resume.
C38_AutoEndAtExpectedEnd ==
  \A x \in Registered :
    \A h \in KindTimers(timers, x, "autoEnd") : timers[h].due = ctx[x].expectedEndTime

\* C39: when the row of the session has a terminal status, completed or cancelled,
\* written by the REST end of the session, no step of the callback of a grace timer
\* changes it, however its select and its update interleave with that request.
C39_ExpiryKeepsTerminal ==
  [][\A t \in Waiting :
       (GraceContinues(t) /\ db.status \in Reasons) => db'.status = db.status]_vars

\* C40: when a context whose conversationHistory has entries is removed from the
\* sessions Map, the transcript row of its session holds exactly that
\* conversationHistory: no entry pushed after the last save is lost.
C40_NothingLostAtRemoval ==
  [][\A x \in CtxIds :
       (Removed(x) /\ ctx[x].conversationHistory # <<>>)
         => transcript' = ctx[x].conversationHistory]_vars
====
